---- MODULE Spec2Model ----
(***************************************************************************)
(* PicoJSX: the reconciling implementation (version 2.0.3, virtual DOM,    *)
(* diff/patch) and the pre-reconciling implementation (version 1.0.0,      *)
(* src/picojsx.js, full rebuild on update) as one state machine over a     *)
(* small model of the DOM.                                                 *)
(*                                                                         *)
(* The JavaScript heap is modelled by sequences indexed by object          *)
(* identity: nodes[n] is live DOM node n, inst[i] is component instance i. *)
(* A handler (render, setState, update, a timer callback) is one action;   *)
(* the recursive functions of the source are RECURSIVE operators that      *)
(* thread a "world" record [nodes, inst, timers, ev, err] through every    *)
(* step they take.                                                         *)
(***************************************************************************)
EXTENDS Integers, Sequences, FiniteSets, TLC

VARIABLES
    impl,      \* "recon" (src/unnamed/part_003) or "legacy" (src/picojsx.js)
    nodes,     \* the DOM heap: node id -> node record
    inst,      \* the component instances: instance id -> instance record
    timers,    \* pending setTimeout(..., 0) callbacks, oldest first
    ev,        \* what the last handler did, in order (hook calls, walker visits)
    err,       \* TRUE when the last handler ended by an uncaught exception
    last,      \* the last handler call and its arguments
    budget,    \* how many more handler calls of each kind the workload makes
    store,     \* the store createStore returned: its state and its listeners
    router     \* the Router of the application and the location it reads

vars == <<impl, nodes, inst, timers, ev, err, last, budget, store, router>>

-----------------------------------------------------------------------------
(* Bounds of the workloads. *)

MaxRenders == 2
MaxSetStates == 2
MaxLen == 3
MaxKids == 2

-----------------------------------------------------------------------------
(* Sequence helpers. *)

NoNode == 0
NoInst == 0

\* Names a value once: Let(e, LAMBDA x : body) is body with x standing for e.
Let(v, F(_)) == F(v)

SeqIndexOf(s, x) ==
    IF \E i \in 1..Len(s) : s[i] = x
    THEN CHOOSE i \in 1..Len(s) : s[i] = x /\ \A j \in 1..(i - 1) : s[j] # x
    ELSE 0

SeqRemove(s, x) == SelectSeq(s, LAMBDA y : y # x)

SeqInsertAt(s, i, x) == SubSeq(s, 1, i - 1) \o <<x>> \o SubSeq(s, i, Len(s))

SeqConcatAt(s, i, t) == SubSeq(s, 1, i - 1) \o t \o SubSeq(s, i, Len(s))

SeqToSet(s) == { s[i] : i \in 1..Len(s) }

-----------------------------------------------------------------------------
(* The DOM.  A node is an Element ("elem"), a Text node, a Comment or a    *)
(* DocumentFragment ("docfrag").  data is the tag name, the text content   *)
(* or the comment data.  attrs is the attribute list as a set of           *)
(* <<name, value>> pairs, listeners the event listener list as a set of    *)
(* <<event type, callback>> pairs.  vnode and pico are the expando         *)
(* properties the library stores on nodes (_vnode, _picoInstance /         *)
(* _PicoInstance).                                                         *)

NoVNode == [type |-> "#none"]

IsNode(w, n) == n \in 1..Len(w.nodes)

Throw(w) == [w EXCEPT !.err = TRUE]

\* The rest of a handler after an exception was thrown does not run.
Guard(w, w2) == IF w.err THEN w ELSE w2

Emit(w, e) == IF w.err THEN w ELSE [w EXCEPT !.ev = Append(@, e)]

NewNode(w, kind, data) ==
    IF w.err THEN w ELSE
    [w EXCEPT !.nodes = Append(@, [kind |-> kind, data |-> data, parent |-> NoNode,
                                    kids |-> <<>>, attrs |-> {}, listeners |-> {},
                                    vnode |-> NoVNode, pico |-> NoInst])]

LastNode(w) == Len(w.nodes)

createElement(w, tag) == NewNode(w, "elem", tag)
createTextNode(w, text) == NewNode(w, "text", text)
createComment(w, data) == NewNode(w, "comment", data)
createDocumentFragment(w) == NewNode(w, "docfrag", "")

IsElement(w, n) == IsNode(w, n) /\ w.nodes[n].kind = "elem"
IsDocFrag(w, n) == IsNode(w, n) /\ w.nodes[n].kind = "docfrag"

parentNode(w, n) == w.nodes[n].parent
childNodes(w, n) == w.nodes[n].kids

\* parentDOM.childNodes[i] with a zero-based index; undefined is NoNode
childAt(w, p, i) ==
    IF i + 1 \in 1..Len(w.nodes[p].kids) THEN w.nodes[p].kids[i + 1] ELSE NoNode

nextSibling(w, n) ==
    LET p == w.nodes[n].parent IN
    IF p = NoNode THEN NoNode
    ELSE     Let(SeqIndexOf(w.nodes[p].kids, n), LAMBDA i :
         IF i < Len(w.nodes[p].kids) THEN w.nodes[p].kids[i + 1] ELSE NoNode)

\* Take n out of its parent's child list (the "remove" step of the DOM's
\* insertion and removal algorithms).
Unlink(w, n) ==
    LET p == w.nodes[n].parent IN
    IF p = NoNode THEN w
    ELSE [w EXCEPT !.nodes[p].kids = SeqRemove(@, n), !.nodes[n].parent = NoNode]

\* Put the nodes of seq (all parentless) into p's child list before position i
\* (one-based; Len+1 appends).
Link(w, p, i, seq) ==
    [w EXCEPT !.nodes = [m \in 1..Len(w.nodes) |->
        IF m = p THEN [w.nodes[m] EXCEPT !.kids = SeqConcatAt(@, i, seq)]
        ELSE IF m \in SeqToSet(seq) THEN [w.nodes[m] EXCEPT !.parent = p]
        ELSE w.nodes[m]]]

\* Empty a DocumentFragment whose children are being inserted elsewhere.
Drain(w, f) ==
    [w EXCEPT !.nodes = [m \in 1..Len(w.nodes) |->
        IF m = f THEN [w.nodes[m] EXCEPT !.kids = <<>>]
        ELSE IF w.nodes[m].parent = f THEN [w.nodes[m] EXCEPT !.parent = NoNode]
        ELSE w.nodes[m]]]

\* Node.insertBefore(c, ref); ref = NoNode appends.  Inserting a
\* DocumentFragment inserts its children and leaves it empty.  A ref that is
\* not a child of p raises NotFoundError.
insertBefore(w, p, c, ref) ==
    IF w.err THEN w
    ELSE IF ~IsNode(w, p) \/ ~IsNode(w, c) THEN Throw(w)
    ELSE IF ref # NoNode /\ (~IsNode(w, ref) \/ w.nodes[ref].parent # p) THEN Throw(w)
    ELSE IF c = ref THEN w
    ELSE IF IsDocFrag(w, c)
         THEN LET moved == w.nodes[c].kids
                  IN Let(Drain(w, c), LAMBDA w1 :
                  Let(IF ref = NoNode THEN Len(w1.nodes[p].kids) + 1
                         ELSE SeqIndexOf(w1.nodes[p].kids, ref), LAMBDA pos :
                 Link(w1, p, pos, moved)))
         ELSE     Let(Unlink(w, c), LAMBDA w1 :
                  Let(IF ref = NoNode THEN Len(w1.nodes[p].kids) + 1
                         ELSE SeqIndexOf(w1.nodes[p].kids, ref), LAMBDA pos :
                 Link(w1, p, pos, <<c>>)))

appendChild(w, p, c) == insertBefore(w, p, c, NoNode)

\* Node.removeChild(c): NotFoundError when c is not a child of p.
removeChild(w, p, c) ==
    IF w.err THEN w
    ELSE IF ~IsNode(w, p) \/ ~IsNode(w, c) THEN Throw(w)
    ELSE IF w.nodes[c].parent # p THEN Throw(w)
    ELSE Unlink(w, c)

\* Node.replaceChild(new, old): NotFoundError when old is not a child of p.
replaceChild(w, p, new, old) ==
    IF w.err THEN w
    ELSE IF ~IsNode(w, p) \/ ~IsNode(w, new) \/ ~IsNode(w, old) THEN Throw(w)
    ELSE IF w.nodes[old].parent # p THEN Throw(w)
    ELSE IF new = old THEN w
    ELSE     Let(nextSibling(w, old), LAMBDA ref :
             Let(IF ref = new THEN nextSibling(w, new) ELSE ref, LAMBDA ref2 :
             Let(Unlink(w, old), LAMBDA w1 :
            insertBefore(w1, p, new, ref2))))

\* Node.isConnected: the node's root is the document.  Node 1, the render
\* container, is attached to document.body.
RECURSIVE isConnected(_, _)
isConnected(w, n) ==
    IF n = 1 THEN TRUE
    ELSE IF ~IsNode(w, n) \/ w.nodes[n].parent = NoNode THEN FALSE
    ELSE isConnected(w, w.nodes[n].parent)

-----------------------------------------------------------------------------
(* Node descriptions (VNodes).  type is a tag name, "#text", Fragment or a *)
(* component class.  props is a set of <<name, value>> pairs, values being *)
(* strings.  _instance, _startMarker and _endMarker are the fields the     *)
(* reconciling implementation writes on a description while it builds or   *)
(* diffs it; a description is built anew by h() for every render, so the   *)
(* written fields travel with the value that is stored as the "previous"   *)
(* description (instance._childVNode, the children of an element's old     *)
(* description).                                                           *)

Fragment == "#fragment"

Classes == {"Counter", "Early", "Label", "Group", "Wrap", "Toggle", "Parent"}

\* The classes of the hook workload (SpecHooks)
HookClasses == {"Fragile", "Pair"}

\* The class of the handler workload (SpecHandlers)
HandlerClasses == {"EventTest"}

\* The class of the debounce workload (SpecDebounce)
DebounceClasses == {"Debounced"}

\* The class of the tree workload (SpecTree)
TreeClasses == {"Shape"}

\* The class of the keyed-component workload (SpecBoard)
BoardClasses == {"Board"}

isPicoClassComponent(type) ==
    type \in Classes \cup HookClasses \cup HandlerClasses \cup DebounceClasses
             \cup TreeClasses \cup BoardClasses

NoKey == "null"

\* A key is a JavaScript number or string.  "n<d>" stands for the number <d>,
\* "s<x>" for the string "<x>" ("s" alone is the empty string).
KeyTokens == {"n0", "n1", "n2", "n3", "n4", "s", "s1", "sa"}

\* String(key): the property name under which a key is filed in an object
\* used as a map (oldKeyed[child.key]).
KeyString(k) ==
    CASE k = "n0" -> "0" [] k = "n1" -> "1" [] k = "n2" -> "2" [] k = "n3" -> "3"
      [] k = "n4" -> "4" [] k = "s" -> "" [] k = "s1" -> "1" [] k = "sa" -> "a" [] OTHER -> k

\* JavaScript truthiness of a key value: 0, "" and null are falsy.
KeyTruthy(k) == k \notin {NoKey, "n0", "s"}

PropHas(props, name) == \E pr \in props : pr[1] = name
PropGet(props, name) == (CHOOSE pr \in props : pr[1] = name)[2]
PropNames(props) == { pr[1] : pr \in props }

\* Property values other than plain strings.  A token stands for one
\* JavaScript function or object, so that === is equality of tokens: "#f"
\* and "#g" are two event handlers, "#cb1" and "#cb2" two callback refs,
\* "#ref1" a ref object ({current: ...}), and "#red1", "#red2", "#blue1"
\* style mappings, the first two being two objects with the same entries.
Handlers == {"#f", "#g"}
RefCallbacks == {"#cb1", "#cb2"}
RefObjects == {"#ref1"}
StyleObjects == {"#red1", "#red2", "#blue1"}

\* typeof value === 'function', typeof value === 'object'
IsFunction(value) == value \in Handlers \cup RefCallbacks
IsObject(value) == value \in RefObjects \cup StyleObjects

\* The style text a style value gives the element: the entries of a mapping
\* as Object.assign(element.style, value) serializes them, a string as it is
StyleText(value) ==
    CASE value \in {"#red1", "#red2"} -> "color: red;"
      [] value = "#blue1" -> "color: blue;"
      [] OTHER -> value

\* name.startsWith('on'), and name.substring(2).toLowerCase()
OnNames == {"onClick", "onInput"}
EventName(name) == CASE name = "onClick" -> "click" [] name = "onInput" -> "input" [] OTHER -> name

VText(t) ==
    [type |-> "#text", props |-> {}, children |-> <<>>, key |-> NoKey, text |-> t,
     _instance |-> NoInst, _startMarker |-> NoNode, _endMarker |-> NoNode]

\* h(type, props, ...children) of the reconciling implementation, for children
\* that are already flat lists of descriptions.
h(type, props, children) ==
        Let(IF PropHas(props, "key") /\ KeyTruthy(PropGet(props, "key"))
               THEN PropGet(props, "key") ELSE NoKey, LAMBDA key :
        LET restProps == { pr \in props : pr[1] # "key" }
    IN [type |-> type, props |-> restProps, children |-> children, key |-> key,
        text |-> "", _instance |-> NoInst, _startMarker |-> NoNode,
        _endMarker |-> NoNode])

\* String(n) for the numbers the components display.
ToStr(n) == CASE n = 0 -> "0" [] n = 1 -> "1" [] n = 2 -> "2" [] OTHER -> "n"

-----------------------------------------------------------------------------
(* The application: the component classes the workload renders.  These are *)
(* user code (subclasses of Component); each gives its constructor's       *)
(* initial state and its render method.                                    *)
(*   Counter  div with the count as text (the tests' UpdateTest)           *)
(*   Early    a Counter whose constructor calls setState({count: 1})       *)
(*   Label    render returns a text description                            *)
(*   Group    render returns a fragment                                    *)
(*   Wrap     render returns another class component's description         *)
(*   Toggle   render returns a div holding a Counter, a paragraph with a   *)
(*            Label and a Group, or (flag set) an empty span               *)
(*   Parent   div holding a paragraph and a Counter child that receives    *)
(*            the parent's value as a prop (the tests' Parent / Child)     *)
(*   Fragile  a Counter whose three lifecycle hooks throw                  *)
(*   Pair     div holding a Fragile and then a Counter, both receiving the *)
(*            pair's value as a prop                                       *)
(*   EventTest  button whose onClick and onInput handlers, and whose span  *)
(*            child with its onClick handler, are chosen by the state      *)
(*            ("none": the property, or the child, is left out)            *)

NoState == [none |-> 0]

InitialState(cls) ==
    CASE cls \in {"Toggle", "Board"} -> [flag |-> 0]
      [] cls \in {"Parent", "Pair"} -> [parentValue |-> 0]
      [] cls = "EventTest" -> [click |-> "#f", input |-> "none", kid |-> "none"]
      [] OTHER -> [count |-> 0]

ClassRender(cls, props, state) ==
    CASE cls \in {"Counter", "Early", "Fragile", "Debounced"} ->
            h("div", {}, <<VText(ToStr(state.count))>>)
      [] cls = "Label" -> VText(ToStr(state.count))
      [] cls = "Shape" -> h(PropGet(props, "as"), {}, <<>>)
      [] cls = "Board" ->
            h("ul", {},
              <<IF state.flag = 0 THEN h("Counter", {<<"key", "n1">>}, <<>>)
                ELSE h("span", {<<"key", "n1">>}, <<>>)>>)
      [] cls = "Group" ->
            h(Fragment, {}, <<h("p", {}, <<VText(ToStr(state.count))>>)>>)
      [] cls = "Wrap" -> h("Counter", {}, <<>>)
      [] cls = "Toggle" ->
            IF state.flag = 0
            THEN h("div", {}, <<h("Counter", {}, <<>>),
                                h("p", {}, <<h("Label", {}, <<>>)>>),
                                h("Group", {}, <<>>)>>)
            ELSE h("span", {}, <<>>)
      [] cls = "Parent" ->
            h("div", {}, <<h("p", {}, <<VText(ToStr(state.parentValue))>>),
                           h("Counter", {<<"someProp", ToStr(state.parentValue)>>},
                             <<>>)>>)
      [] cls = "EventTest" ->
            h("button",
              (IF state.click = "none" THEN {} ELSE {<<"onClick", state.click>>})
              \cup (IF state.input = "none" THEN {} ELSE {<<"onInput", state.input>>}),
              IF state.kid = "none" THEN <<>>
              ELSE <<h("span", {<<"onClick", state.kid>>}, <<>>)>>)
      [] cls = "Pair" ->
            h("div", {}, <<h("Fragile", {<<"someProp", ToStr(state.parentValue)>>},
                             <<>>),
                           h("Counter", {<<"someProp", ToStr(state.parentValue)>>},
                             <<>>)>>)

\* Object.assign(state, partial)
Merge(state, partial) ==
    [k \in (DOMAIN state) \cup (DOMAIN partial) |->
        IF k \in DOMAIN partial THEN partial[k] ELSE state[k]]

\* this.updateDebounceDelay after new Class(props): neither Component
\* constructor sets the field; the constructor of Debounced sets it to
\* props.debounceDelay, or to 100 when that is undefined.
constructorDelay(cls, props) ==
    IF cls \notin DebounceClasses THEN "undefined"
    ELSE IF PropHas(props, "debounceDelay") THEN PropGet(props, "debounceDelay")
    ELSE "100"

\* new Class(props): the fields the two Component constructors set.  The
\* fields that start with g are observers of the hook calls, not program
\* state: how often componentDidMount, componentWillUnmount and
\* componentDidUpdate ran, what the last componentDidUpdate was told (gPrev)
\* and saw (gCur), the state before the first setState call since the last
\* componentDidUpdate (gBase), what that was when the last componentDidUpdate
\* ran (gBaseAt), the live nodes its render output was built into (gContent),
\* whether those were in the document when its deferred mount callback ran
\* (gTimer), and the call that constructed it (gBy).
NewInstance(cls, props) ==
    [cls |-> cls, props |-> props, state |-> InitialState(cls),
     updateDebounceDelay |-> constructorDelay(cls, props),
     _childVNode |-> NoVNode, _dom |-> NoNode,
     _isMounted |-> FALSE, _isUnmounted |-> FALSE,
     _prevState |-> NoState, _prevProps |-> {}, autoUpdate |-> TRUE,
     _startMarker |-> NoNode, _endMarker |-> NoNode,
     gDidMount |-> 0, gWillUnmount |-> 0, gDidUpdate |-> 0,
     gPrev |-> NoState, gCur |-> NoState, gBase |-> NoState, gBaseAt |-> NoState,
     gContent |-> <<>>, gTimer |-> "pending", gBy |-> "none"]

\* instance.render() is recorded where the library calls it, as the event
\* <<"render", instance>>.
\* The hooks of the application only record that they ran; those of Fragile
\* then throw.
HookEnd(w, i) == IF w.inst[i].cls = "Fragile" THEN Throw(w) ELSE w

componentDidMount(w, i) ==
    IF w.err THEN w
    ELSE HookEnd(Emit([w EXCEPT !.inst[i].gDidMount = @ + 1],
                      <<"componentDidMount", i>>), i)

componentWillUnmount(w, i) ==
    IF w.err THEN w
    ELSE HookEnd(Emit([w EXCEPT !.inst[i].gWillUnmount = @ + 1],
                      <<"componentWillUnmount", i>>), i)

componentDidUpdate(w, i, prevProps, prevState) ==
    IF w.err THEN w
    ELSE HookEnd(Emit([w EXCEPT !.inst[i].gDidUpdate = @ + 1,
                                !.inst[i].gPrev = prevState,
                                !.inst[i].gCur = w.inst[i].state,
                                !.inst[i].gBaseAt = w.inst[i].gBase,
                                !.inst[i].gBase = NoState],
                      <<"componentDidUpdate", i>>), i)

\* try { comp.componentDidMount(); } catch (e) { console.error(...); }
tryDidMount(w, comp) ==
    IF w.err THEN w ELSE [componentDidMount(w, comp) EXCEPT !.err = FALSE]

-----------------------------------------------------------------------------
(* The reconciling implementation, src/unnamed/part_003.                   *)

R(w, dom, v) == [w |-> w, dom |-> dom, v |-> v]

\* The live nodes a build produced: the node, or what a DocumentFragment holds
Content(w, dom) ==
    IF ~IsNode(w, dom) THEN <<>>
    ELSE IF IsDocFrag(w, dom) THEN w.nodes[dom].kids ELSE <<dom>>

\* element.className: the class attribute, "" when there is none
className(w, n) ==
    IF PropHas(w.nodes[n].attrs, "class") THEN PropGet(w.nodes[n].attrs, "class") ELSE ""

\* element.setAttribute(name, value); not a function on Text and Comment nodes
setAttribute(w, n, name, value) ==
    IF w.err THEN w
    ELSE IF ~IsElement(w, n) THEN Throw(w)
    ELSE Emit([w EXCEPT !.nodes[n].attrs = { pr \in @ : pr[1] # name } \cup {<<name, value>>}],
              <<"mutate", n>>)

removeAttribute(w, n, name) ==
    IF w.err THEN w
    ELSE IF ~IsElement(w, n) THEN Throw(w)
    ELSE IF ~PropHas(w.nodes[n].attrs, name) THEN w
    ELSE Emit([w EXCEPT !.nodes[n].attrs = { pr \in @ : pr[1] # name }], <<"mutate", n>>)

\* element.style.cssText = text, and Object.assign(element.style, mapping) on
\* an element whose style is empty: the style attribute holds the text.
\* Clearing the style of an element that has no style attribute changes
\* nothing.
setCssText(w, n, text) ==
    IF w.err THEN w
    ELSE IF ~IsElement(w, n) THEN Throw(w)
    ELSE IF text = "" /\ ~PropHas(w.nodes[n].attrs, "style") THEN w
    ELSE setAttribute(w, n, "style", text)

\* element.addEventListener(type, callback): a callback already listed for
\* the type is not listed again
addEventListener(w, n, type, callback) ==
    IF w.err THEN w
    ELSE IF ~IsNode(w, n) THEN Throw(w)
    ELSE [w EXCEPT !.nodes[n].listeners = @ \cup {<<type, callback>>}]

\* A removeEventListener that removes nothing
removeEventListenerNot(w, n, type, callback) == w

removeEventListener(w, n, type, callback) ==
    IF w.err THEN w
    ELSE IF ~IsNode(w, n) THEN Throw(w)
    ELSE [w EXCEPT !.nodes[n].listeners = @ \ {<<type, callback>>}]

\* ref(element) for a callback ref, ref.current = element for a ref object;
\* element is NoNode for null.  The event names the ref and what it was given.
setRef(w, ref, element) == Emit(w, <<ref, element>>)

\* An assignment to textContent that is lost
textContentKept(w, n, text) == w

\* node.textContent = text: Text and Comment nodes change their data, other
\* nodes have their children replaced by one Text node (none for "").
setTextContent(w, n, text) ==
    IF w.err THEN w
    ELSE IF ~IsNode(w, n) THEN Throw(w)
    ELSE IF w.nodes[n].kind \in {"text", "comment"} THEN [w EXCEPT !.nodes[n].data = text]
    ELSE     Let(Drain(w, n), LAMBDA w1 :
             Let(createTextNode(w1, text), LAMBDA w2 :
            IF text = "" THEN w1 ELSE Link(w2, n, 1, <<LastNode(w2)>>)))

\* The body of applyProps' loop for one property.  The workload's values
\* are non-empty strings, functions and objects, so of the branches on the
\* name and the value's type these are taken: className, an event handler,
\* style, ref, and the plain attribute.
SetProp(w, n, name, value) ==
    IF name = "className" THEN setAttribute(w, n, "class", value)
    ELSE IF name \in OnNames /\ IsFunction(value)
    THEN addEventListener(w, n, EventName(name), value)
    ELSE IF name = "style" THEN setCssText(w, n, StyleText(value))
    ELSE IF name = "ref"
    THEN IF IsFunction(value) \/ IsObject(value) THEN setRef(w, value, n) ELSE w
    ELSE setAttribute(w, n, name, value)

RECURSIVE ApplyEach(_, _, _, _)
ApplyEach(w, n, props, todo) ==
    IF todo = {} THEN w
    ELSE LET name == CHOOSE x \in todo : TRUE
         IN ApplyEach(SetProp(w, n, name, PropGet(props, name)), n, props, todo \ {name})

applyProps(w, element, props) ==
    ApplyEach(w, element, props, PropNames(props) \ {"children", "key"})

\* The first loop of updateProps: a property of the old description that the
\* new one does not have.
DropProp(w, n, name, oldProps) ==
    LET oldValue == PropGet(oldProps, name) IN
    IF name = "className" THEN setAttribute(w, n, "class", "")
    ELSE IF name \in OnNames /\ IsFunction(oldValue)
    THEN removeEventListener(w, n, EventName(name), oldValue)
    ELSE IF name = "ref"
    THEN IF IsFunction(oldValue) \/ oldValue \in RefObjects
         THEN setRef(w, oldValue, NoNode) ELSE w
    ELSE IF name \in {"children", "key", "dangerouslySetInnerHTML"} THEN w
    ELSE removeAttribute(w, n, name)

\* The second loop of updateProps: a property of the new description.
PatchProp(w, n, name, oldProps, newProps) ==
    LET newValue == PropGet(newProps, name) IN
    IF name \in {"children", "key"} THEN w
    ELSE IF PropHas(oldProps, name) /\ PropGet(oldProps, name) = newValue /\ name # "ref"
    THEN w
    ELSE IF w.err THEN w
    ELSE IF ~IsNode(w, n) THEN Throw(w)
    ELSE IF name = "className"
         THEN IF className(w, n) # newValue THEN setAttribute(w, n, "class", newValue) ELSE w
    ELSE IF name \in OnNames
    THEN     Let(IF PropHas(oldProps, name) /\ IsFunction(PropGet(oldProps, name))
                 THEN removeEventListener(w, n, EventName(name), PropGet(oldProps, name))
                 ELSE w, LAMBDA w1 :
             IF IsFunction(newValue)
             THEN addEventListener(w1, n, EventName(name), newValue) ELSE w1)
    ELSE IF name = "style"
    THEN IF IsObject(newValue)
         THEN setCssText(setCssText(w, n, ""), n, StyleText(newValue))
         ELSE setCssText(w, n, newValue)
    ELSE IF name = "ref"
    THEN     Let(IF PropHas(oldProps, name) /\ PropGet(oldProps, name) # newValue
                 THEN setRef(w, PropGet(oldProps, name), NoNode) ELSE w, LAMBDA w1 :
             IF IsFunction(newValue) \/ newValue \in RefObjects
             THEN setRef(w1, newValue, n) ELSE w1)
    ELSE IF ~IsElement(w, n) THEN Throw(w)
    ELSE IF <<name, newValue>> \notin w.nodes[n].attrs
         THEN setAttribute(w, n, name, newValue) ELSE w

RECURSIVE DropEach(_, _, _, _), PatchEach(_, _, _, _, _)
DropEach(w, n, oldProps, todo) ==
    IF todo = {} THEN w
    ELSE LET name == CHOOSE x \in todo : TRUE
         IN DropEach(DropProp(w, n, name, oldProps), n, oldProps, todo \ {name})

PatchEach(w, n, oldProps, newProps, todo) ==
    IF todo = {} THEN w
    ELSE LET name == CHOOSE x \in todo : TRUE
         IN PatchEach(PatchProp(w, n, name, oldProps, newProps), n, oldProps, newProps,
                      todo \ {name})

\* A patch that leaves the element's properties as they are
updatePropsNot(w, element, oldProps, newProps) == w

updateProps(w, element, oldProps, newProps) ==
        Let(DropEach(w, element, oldProps, PropNames(oldProps) \ PropNames(newProps)), LAMBDA w1 :
       PatchEach(w1, element, oldProps, newProps, PropNames(newProps)))

RECURSIVE createDOMElement(_, _), createChildren(_, _, _, _, _)
RECURSIVE unmountComponent(_, _), unmountEach(_, _, _), unmountMarked(_, _, _)
RECURSIVE unmountChildren(_, _), unmountChildrenEach(_, _, _)
RECURSIVE diff(_, _, _, _, _, _), diffChildren(_, _, _, _)
RECURSIVE diffFragmentLoop(_, _, _, _, _, _, _, _), diffChildrenLoop(_, _, _, _, _, _, _, _)

\* new vnode.type(vnode.props).  Early's constructor goes on to call
\* this.setState({count: 1}): _prevState is saved, the state merged, and
\* update() returns at once because there is no _dom yet.
construct(w, cls, props) ==
    IF w.err THEN w
    ELSE     Let([w EXCEPT !.inst = Append(@, NewInstance(cls, props))], LAMBDA w1 :
             Let(Len(w1.inst), LAMBDA i :
            IF cls = "Early"
            THEN [w1 EXCEPT !.inst[i]._prevState = w1.inst[i].state,
                            !.inst[i].gBase = w1.inst[i].state,
                            !.inst[i].state = Merge(@, [count |-> 1])]
            ELSE w1))

\* vnode.children.forEach(child => parent.appendChild(createDOMElement(child)))
\* Returns the world and the children as written on by createDOMElement.
createChildren(w, parent, children, k, done) ==
    IF k > Len(children) THEN [w |-> w, vs |-> done]
    ELSE     Let(createDOMElement(w, children[k]), LAMBDA rc :
             Let(appendChild(rc.w, parent, rc.dom), LAMBDA w1 :
            createChildren(w1, parent, children, k + 1, Append(done, rc.v))))

createDOMElement(w, vnode) ==
    IF w.err THEN R(w, NoNode, vnode)
    ELSE IF vnode = NoVNode
    THEN     Let(createTextNode(w, ""), LAMBDA w1 :    R(w1, LastNode(w1), vnode))
    ELSE IF vnode.type = "#text"
    THEN     Let(createTextNode(w, vnode.text), LAMBDA w1 :    R(w1, LastNode(w1), vnode))
    ELSE IF vnode.type = Fragment
    THEN     Let(createDocumentFragment(w), LAMBDA w1 :
             Let(LastNode(w1), LAMBDA fragment :
             Let(createComment(w1, "fragment-start"), LAMBDA w2 :
             Let(LastNode(w2), LAMBDA startMarker :
             Let(appendChild(w2, fragment, startMarker), LAMBDA w3 :
             Let(createChildren(w3, fragment, vnode.children, 1, <<>>), LAMBDA rc :
             Let(createComment(rc.w, "fragment-end"), LAMBDA w4 :
             Let(LastNode(w4), LAMBDA endMarker :
             Let(appendChild(w4, fragment, endMarker), LAMBDA w5 :
            R(w5, fragment, [vnode EXCEPT !._startMarker = startMarker,
                                          !._endMarker = endMarker,
                                          !.children = rc.vs]))))))))))
    ELSE IF isPicoClassComponent(vnode.type)
    THEN     Let(IF vnode._instance # NoInst THEN w
                   ELSE construct(w, vnode.type, vnode.props), LAMBDA w1 :
             Let(IF vnode._instance # NoInst THEN vnode._instance ELSE Len(w1.inst), LAMBDA instance :
             Let(ClassRender(vnode.type, w1.inst[instance].props,
                                       w1.inst[instance].state), LAMBDA childVNode :
             Let(createDOMElement(Emit(w1, <<"render", instance>>), childVNode), LAMBDA rc :
             Let(Guard(rc.w, [rc.w EXCEPT !.inst[instance]._childVNode = rc.v,
                                            !.inst[instance]._dom = rc.dom,
                                            !.inst[instance].gContent =
                                                Content(rc.w, rc.dom)]), LAMBDA w2 :
             Let(IF ~w2.err /\ IsElement(w2, rc.dom)
                   THEN [w2 EXCEPT !.nodes[rc.dom].pico = instance] ELSE w2, LAMBDA w3 :
             Let(IF ~w3.err /\ ~w3.inst[instance]._isMounted
                   THEN [w3 EXCEPT !.timers = Append(@, [kind |-> "didMount",
                                       inst |-> instance, queue |-> <<>>])]
                   ELSE w3, LAMBDA w4 :
            R(w4, rc.dom, [vnode EXCEPT !._instance = instance]))))))))
    ELSE \* typeof vnode.type === 'string'
             Let(createElement(w, vnode.type), LAMBDA w1 :
             Let(LastNode(w1), LAMBDA element :
             Let(applyProps(w1, element, vnode.props), LAMBDA w2 :
             Let(createChildren(w2, element, vnode.children, 1, <<>>), LAMBDA rc :
             Let([vnode EXCEPT !.children = rc.vs], LAMBDA v2 :
             Let(Guard(rc.w, [rc.w EXCEPT !.nodes[element].vnode = v2]), LAMBDA w3 :
            R(w3, element, v2)))))))

\* if (dom._picoInstance) { ... }: the same four lines in unmountComponent
\* (twice) and in diff's unmountChildren: componentWillUnmount unless the
\* instance is already flagged unmounted, then the flags.
unmountInstance(w, n) ==
    IF w.err \/ ~IsNode(w, n) THEN w
    ELSE LET instance == w.nodes[n].pico IN
         IF instance = NoInst THEN w
         ELSE     Let(IF ~w.inst[instance]._isUnmounted
                        THEN componentWillUnmount(w, instance) ELSE w, LAMBDA w1 :
                 Guard(w1, [w1 EXCEPT !.inst[instance]._isUnmounted = TRUE,
                                      !.inst[instance]._isMounted = FALSE]))

\* n.childNodes.forEach(child => unmountComponent(child)): childNodes is a
\* live list, walked by position k (zero-based) while the callback may
\* remove nodes from it.
unmountEach(w, n, k) ==
    IF w.err \/ k >= Len(w.nodes[n].kids) THEN w
    ELSE unmountEach(unmountComponent(w, childAt(w, n, k)), n, k + 1)

\* nodesToRemove.forEach(n => ...) of unmountComponent's fragment branch
unmountMarked(w, nodesToRemove, k) ==
    IF w.err \/ k > Len(nodesToRemove) THEN w
    ELSE LET n == nodesToRemove[k] IN
         IF w.nodes[n].parent = NoNode THEN unmountMarked(w, nodesToRemove, k + 1)
         ELSE     Let(unmountEach(w, n, 0), LAMBDA w1 :
                  Let(unmountInstance(w1, n), LAMBDA w2 :
                  Let(IF w2.err THEN w2
                        ELSE IF w2.nodes[n].parent = NoNode THEN Throw(w2)
                        ELSE removeChild(w2, w2.nodes[n].parent, n), LAMBDA w3 :
                 unmountMarked(w3, nodesToRemove, k + 1))))

IsMarker(w, n, data) ==
    IsNode(w, n) /\ w.nodes[n].kind = "comment" /\ w.nodes[n].data = data

\* dom and its following siblings up to and including the first
\* 'fragment-end' comment (all of them when there is none)
MarkedRun(w, dom) ==
    LET kids == w.nodes[w.nodes[dom].parent].kids
        IN Let(SeqIndexOf(kids, dom), LAMBDA first :
        Let({ j \in (first + 1)..Len(kids) : IsMarker(w, kids[j], "fragment-end") }, LAMBDA ends :
        Let(IF ends = {} THEN Len(kids)
                ELSE CHOOSE j \in ends : \A j2 \in ends : j <= j2, LAMBDA stop :
       SubSeq(kids, first, stop))))

unmountComponent(w, dom) ==
    IF w.err \/ dom = NoNode THEN w
    ELSE LET w0 == Emit(w, <<"unmountComponent", dom>>) IN
         IF IsMarker(w0, dom, "fragment-start") /\ w0.nodes[dom].parent # NoNode
         THEN unmountMarked(w0, MarkedRun(w0, dom), 1)
         ELSE     Let(unmountInstance(w0, dom), LAMBDA w1 :
                  Let(unmountEach(w1, dom, 0), LAMBDA w2 :
                 \* Clean up refs
                 IF w2.err \/ w2.nodes[dom].vnode = NoVNode
                    \/ ~PropHas(w2.nodes[dom].vnode.props, "ref")
                 THEN w2
                 ELSE Let(PropGet(w2.nodes[dom].vnode.props, "ref"), LAMBDA ref :
                      IF IsFunction(ref) \/ ref \in RefObjects
                      THEN setRef(w2, ref, NoNode) ELSE w2)))

\* unmountChildren of diff's replace branch: every descendant of node, the
\* node itself not included.
unmountChildrenEach(w, node, k) ==
    IF w.err \/ k > Len(w.nodes[node].kids) THEN w
    ELSE LET child == w.nodes[node].kids[k]
             IN Let(unmountChildren(w, child), LAMBDA w1 :
             Let(unmountInstance(w1, child), LAMBDA w2 :
            unmountChildrenEach(w2, node, k + 1)))

unmountChildren(w, node) ==
    IF w.err \/ ~IsNode(w, node) THEN w
    ELSE unmountChildrenEach(w, node, 1)

\* Array.from(parent.childNodes).indexOf(n): zero-based, -1 when absent
indexOf(w, parent, n) == SeqIndexOf(w.nodes[parent].kids, n) - 1

\* children[i] with a zero-based index; undefined is NoVNode
vnodeAt(children, i) == IF i + 1 \in 1..Len(children) THEN children[i + 1] ELSE NoVNode

Max(a, b) == IF a >= b THEN a ELSE b

\* The "Diff each child" loop of diff's fragment branch, from child i on.
\* Returns the world and the new children as written on so far.
diffFragmentLoop(w, parentDOM, endMarker, oldChildren, newChildren, i, currentNode, done) ==
    IF i >= Max(Len(oldChildren), Len(newChildren)) THEN [w |-> w, vs |-> done]
    ELSE IF w.err
    THEN [w |-> w, vs |-> done \o SubSeq(newChildren, Len(done) + 1, Len(newChildren))]
    ELSE LET oldChild == vnodeAt(oldChildren, i)
             newChild == vnodeAt(newChildren, i)
             here == currentNode # NoNode /\ currentNode # endMarker
             IN Let(IF here THEN nextSibling(w, currentNode) ELSE currentNode, LAMBDA next :
            IF newChild = NoVNode /\ oldChild # NoVNode
            THEN IF here
                 THEN     Let(unmountComponent(w, currentNode), LAMBDA w1 :
                          Let(removeChild(w1, parentDOM, currentNode), LAMBDA w2 :
                         diffFragmentLoop(w2, parentDOM, endMarker, oldChildren,
                                          newChildren, i + 1, next, done)))
                 ELSE diffFragmentLoop(w, parentDOM, endMarker, oldChildren,
                                       newChildren, i + 1, currentNode, done)
            ELSE IF newChild # NoVNode /\ oldChild = NoVNode
            THEN     Let(createDOMElement(w, newChild), LAMBDA rc :
                     Let(insertBefore(rc.w, parentDOM, rc.dom, endMarker), LAMBDA w1 :
                    diffFragmentLoop(w1, parentDOM, endMarker, oldChildren,
                                     newChildren, i + 1, currentNode, Append(done, rc.v))))
            ELSE IF newChild # NoVNode /\ oldChild # NoVNode /\ here
            THEN     Let(diff(w, parentDOM, currentNode, oldChild, newChild,
                                indexOf(w, parentDOM, currentNode)), LAMBDA rc :
                    diffFragmentLoop(rc.w, parentDOM, endMarker, oldChildren,
                                     newChildren, i + 1, next, Append(done, rc.v)))
            ELSE diffFragmentLoop(w, parentDOM, endMarker, oldChildren, newChildren,
                                  i + 1, currentNode,
                                  IF newChild # NoVNode THEN Append(done, newChild) ELSE done))

\* The first 'fragment-end' comment among the siblings after startMarker
FindEndMarker(w, startMarker) ==
    LET p == w.nodes[startMarker].parent IN
    IF p = NoNode THEN NoNode
    ELSE LET kids == w.nodes[p].kids
             IN Let(SeqIndexOf(kids, startMarker), LAMBDA first :
             Let({ j \in (first + 1)..Len(kids) : IsMarker(w, kids[j], "fragment-end") }, LAMBDA ends :
            IF ends = {} THEN NoNode
            ELSE kids[CHOOSE j \in ends : \A j2 \in ends : j <= j2]))

diff(w, parentDOM, dom, oldVNode, newVNode, index) ==
    IF w.err THEN R(w, NoNode, newVNode)
    ELSE IF newVNode = NoVNode /\ oldVNode = NoVNode THEN R(w, NoNode, newVNode)
    ELSE IF newVNode = NoVNode
    THEN \* Remove node
         IF dom # NoNode
         THEN     Let(unmountComponent(w, dom), LAMBDA w1 :
                  Let(removeChild(w1, parentDOM, dom), LAMBDA w2 :
                 R(w2, NoNode, newVNode)))
         ELSE R(w, NoNode, newVNode)
    ELSE IF oldVNode = NoVNode
    THEN \* Add new node
             Let(createDOMElement(w, newVNode), LAMBDA rc :
             Let(IF rc.w.err THEN rc.w
                   ELSE IF ~IsNode(rc.w, parentDOM) THEN Throw(rc.w)
                   ELSE insertBefore(rc.w, parentDOM, rc.dom, childAt(rc.w, parentDOM, index)), LAMBDA w1 :
            R(w1, rc.dom, rc.v)))
    ELSE IF oldVNode.type # newVNode.type
    THEN \* Different types - replace
             Let(createDOMElement(w, newVNode), LAMBDA rc :
             Let(unmountChildren(rc.w, dom), LAMBDA w1 :
             Let(replaceChild(w1, parentDOM, rc.dom, dom), LAMBDA w2 :
            R(w2, rc.dom, rc.v))))
    ELSE IF newVNode.type = "#text"
    THEN IF oldVNode.text # newVNode.text
         THEN R(setTextContent(w, dom, newVNode.text), dom, newVNode)
         ELSE R(w, dom, newVNode)
    ELSE IF newVNode.type = Fragment
    THEN     Let(IF IsMarker(w, dom, "fragment-start") THEN dom ELSE NoNode, LAMBDA startMarker :
             Let(IF startMarker # NoNode THEN FindEndMarker(w, startMarker)
                          ELSE NoNode, LAMBDA endMarker :
            IF startMarker # NoNode /\ endMarker # NoNode
            THEN     Let(diffFragmentLoop(w, parentDOM, endMarker, oldVNode.children,
                                            newVNode.children, 0,
                                            nextSibling(w, startMarker), <<>>), LAMBDA rc :
                    R(rc.w, startMarker,
                      [newVNode EXCEPT !.children = rc.vs,
                                       !._startMarker = startMarker,
                                       !._endMarker = endMarker]))
            ELSE     Let(createDOMElement(w, newVNode), LAMBDA rc :
                     Let(IF dom # NoNode
                           THEN replaceChild(unmountComponent(rc.w, dom), parentDOM,
                                             rc.dom, dom)
                           ELSE IF ~IsNode(rc.w, parentDOM) THEN Throw(rc.w)
                           ELSE appendChild(rc.w, parentDOM, rc.dom), LAMBDA w1 :
                    R(w1, rc.v._startMarker, rc.v)))))
    ELSE IF isPicoClassComponent(newVNode.type)
    THEN LET instance == oldVNode._instance IN
         IF instance = NoInst THEN R(Throw(w), NoNode, newVNode)
         ELSE LET v1 == [newVNode EXCEPT !._instance = instance]
                  prevProps == w.inst[instance].props
                  oldChildVNode == w.inst[instance]._childVNode
                  IN Let(ClassRender(newVNode.type, newVNode.props,
                                               w.inst[instance].state), LAMBDA newChildVNode :
                  Let(Emit([w EXCEPT !.inst[instance].props = newVNode.props,
                                       !.inst[instance]._childVNode = newChildVNode],
                           <<"render", instance>>), LAMBDA w1 :
                  Let(IF dom = NoNode THEN NoNode ELSE w1.nodes[dom].parent, LAMBDA parent :
                 IF parent = NoNode THEN R(Throw(w1), NoNode, v1)
                 ELSE     Let(diff(w1, parent, dom, oldChildVNode, newChildVNode,
                                     indexOf(w1, parent, dom)), LAMBDA rc :
                          Let(Guard(rc.w, [rc.w EXCEPT !.inst[instance]._childVNode = rc.v,
                                                         !.inst[instance].gContent =
                                                             IF IsNode(rc.w, rc.dom)
                                                                /\ ~IsDocFrag(rc.w, rc.dom)
                                                             THEN <<rc.dom>> ELSE @]), LAMBDA w2 :
                         IF newChildVNode # NoVNode /\ newChildVNode.type = Fragment
                            /\ rc.dom # dom
                         THEN R(w2, rc.dom, v1)
                         ELSE R(componentDidUpdate(w2, instance, prevProps,
                                                   w2.inst[instance].state), dom, v1))))))
    ELSE \* HTML elements
             Let(updateProps(w, dom, oldVNode.props, newVNode.props), LAMBDA w1 :
             Let(diffChildren(w1, dom, oldVNode.children, newVNode.children), LAMBDA rc :
             Let([newVNode EXCEPT !.children = rc.vs], LAMBDA v2 :
             Let(Guard(rc.w, [rc.w EXCEPT !.nodes[dom].vnode = v2]), LAMBDA w2 :
            R(w2, dom, v2)))))

\* child?.key !== null && child?.key !== undefined
HasKey(v) == v # NoVNode /\ v.key # NoKey

\* A key map that files nothing: no keyed child finds its old entry
OldKeyedEmpty(oldChildren, name) == 0

\* oldKeyed[name]: the entry filed last under that property name (0: none)
OldKeyed(oldChildren, name) ==
        Let({ i \in 1..Len(oldChildren) :
                    HasKey(oldChildren[i]) /\ KeyString(oldChildren[i].key) = name }, LAMBDA hits :
       IF hits = {} THEN 0 ELSE CHOOSE i \in hits : \A j \in hits : j <= i)

\* A positional search that never accepts the candidate
candidateNever(oldChildren, newChild, k, matched) == 0

\* The old child a non-keyed new child k (one-based) is matched with: the
\* unmatched, unkeyed old child of the same type at the same position (0: none)
candidateAt(oldChildren, newChild, k, matched) ==
    IF k <= Len(oldChildren) /\ k \notin matched
       /\ oldChildren[k] # NoVNode
       /\ ~KeyTruthy(oldChildren[k].key)
       /\ newChild # NoVNode
       /\ oldChildren[k].type = newChild.type
    THEN k ELSE 0

\* The "Process new children" loop of diffChildren, from new child k
\* (one-based) on.  matched holds one-based positions of old children.
diffChildrenLoop(w, parentDOM, oldChildren, newChildren, oldElements, k, matched, done) ==
    IF k > Len(newChildren) THEN [w |-> w, vs |-> done, matched |-> matched]
    ELSE IF w.err
    THEN [w |-> w, vs |-> done \o SubSeq(newChildren, k, Len(newChildren)),
          matched |-> matched]
    ELSE LET newChild == newChildren[k]
             newIndex == k - 1
             IN Let(IF HasKey(newChild) THEN OldKeyed(oldChildren, KeyString(newChild.key))
                      ELSE 0, LAMBDA byKey :
             Let(IF ~HasKey(newChild)
                      THEN candidateAt(oldChildren, newChild, k, matched)
                      ELSE 0, LAMBDA byPos :
             Let(IF HasKey(newChild) THEN byKey ELSE byPos, LAMBDA oldIndex :
             Let(IF oldIndex = 0 THEN NoVNode ELSE oldChildren[oldIndex], LAMBDA oldChild :
             Let(IF oldIndex = 0 \/ oldIndex > Len(oldElements) THEN NoNode
                       ELSE oldElements[oldIndex], LAMBDA oldDOM :
             Let(diff(w, parentDOM, oldDOM, oldChild, newChild, newIndex), LAMBDA rc :
             Let(IF rc.w.err THEN NoNode ELSE childAt(rc.w, parentDOM, newIndex), LAMBDA at :
             Let(IF rc.dom # NoNode /\ rc.dom # at
                   THEN insertBefore(rc.w, parentDOM, rc.dom, at)
                   ELSE rc.w, LAMBDA w1 :
            diffChildrenLoop(w1, parentDOM, oldChildren, newChildren, oldElements, k + 1,
                             IF oldIndex = 0 THEN matched ELSE matched \cup {oldIndex},
                             Append(done, rc.v))))))))))

\* A loop that removes nothing
removeNone(w, parentDOM, oldChildren, oldElements, matched, k) == w

\* The "Remove unmatched old children" loop of diffChildren
RECURSIVE removeUnmatched(_, _, _, _, _, _)
removeUnmatched(w, parentDOM, oldChildren, oldElements, matched, k) ==
    IF w.err \/ k > Len(oldChildren) THEN w
    ELSE IF k \notin matched /\ k <= Len(oldElements)
    THEN LET n == oldElements[k]
             IN Let(unmountComponent(w, n), LAMBDA w1 :
             Let(IF ~w1.err /\ w1.nodes[n].parent = parentDOM
                   THEN removeChild(w1, parentDOM, n) ELSE w1, LAMBDA w2 :
            removeUnmatched(w2, parentDOM, oldChildren, oldElements, matched, k + 1)))
    ELSE removeUnmatched(w, parentDOM, oldChildren, oldElements, matched, k + 1)

diffChildren(w, parentDOM, oldChildren, newChildren) ==
    IF w.err THEN [w |-> w, vs |-> newChildren]
    ELSE IF ~IsNode(w, parentDOM) THEN [w |-> Throw(w), vs |-> newChildren]
    ELSE LET oldElements == w.nodes[parentDOM].kids
             IN Let(diffChildrenLoop(w, parentDOM, oldChildren, newChildren, oldElements,
                                    1, {}, <<>>), LAMBDA rc :
             Let(removeUnmatched(rc.w, parentDOM, oldChildren, oldElements, rc.matched, 1), LAMBDA w1 :
            [w |-> w1, vs |-> rc.vs]))

\* A guard that looks at _dom only
updateGuardDomOnly(w, i) == w.inst[i]._dom = NoNode

\* if (!this._dom || this._isUnmounted) return;
updateGuard(w, i) == w.inst[i]._dom = NoNode \/ w.inst[i]._isUnmounted

\* Component.update() of the reconciling implementation
update(w, i) ==
    IF w.err THEN w
    ELSE IF updateGuard(w, i) THEN w
    ELSE LET prevProps == w.inst[i].props
             prevState == IF w.inst[i]._prevState # NoState THEN w.inst[i]._prevState
                          ELSE w.inst[i].state
             oldChildVNode == w.inst[i]._childVNode
             IN Let(ClassRender(w.inst[i].cls, w.inst[i].props, w.inst[i].state), LAMBDA newChildVNode :
             Let(Emit([w EXCEPT !.inst[i]._prevState = NoState,
                                  !.inst[i]._childVNode = newChildVNode],
                      <<"render", i>>), LAMBDA w1 :
             LET dom == w.inst[i]._dom
             IN Let(w1.nodes[dom].parent, LAMBDA parentDOM :
            IF parentDOM = NoNode THEN w1
            ELSE     Let(diff(w1, parentDOM, dom, oldChildVNode, newChildVNode,
                                indexOf(w1, parentDOM, dom)), LAMBDA rc :
                     Let(Guard(rc.w, [rc.w EXCEPT !.inst[i]._dom = rc.dom,
                                                    !.inst[i]._childVNode = rc.v,
                                                    !.inst[i].gContent =
                                                        IF IsNode(rc.w, rc.dom)
                                                           /\ ~IsDocFrag(rc.w, rc.dom)
                                                        THEN <<rc.dom>> ELSE @]), LAMBDA w2 :
                    componentDidUpdate(w2, i, prevProps, prevState))))))

\* Component.setState(updater) of the reconciling implementation, for an
\* object updater
setState(w, i, updater) ==
        Let([w EXCEPT !.inst[i]._prevState = w.inst[i].state,
                        !.inst[i].gBase = IF @ = NoState THEN w.inst[i].state ELSE @,
                        !.inst[i].state = Merge(@, updater)], LAMBDA w1 :
       update(w1, i))

\* while (container.firstChild) { unmountComponent(container.firstChild);
\*                                container.removeChild(container.firstChild); }
RECURSIVE renderClear(_, _)
renderClear(w, container) ==
    IF w.err \/ w.nodes[container].kids = <<>> THEN w
    ELSE     Let(unmountComponent(w, childAt(w, container, 0)), LAMBDA w1 :
             Let(IF w1.err THEN w1
                   ELSE IF childAt(w1, container, 0) = NoNode THEN Throw(w1)
                   ELSE removeChild(w1, container, childAt(w1, container, 0)), LAMBDA w2 :
            renderClear(w2, container)))

\* render(vnode, container) of the reconciling implementation
render(w, vnode, container) ==
        Let(renderClear(w, container), LAMBDA w1 :
        Let(createDOMElement(w1, vnode), LAMBDA rc :
        Let(appendChild(rc.w, container, rc.dom), LAMBDA w2 :
       Guard(w2, [w2 EXCEPT !.nodes[container].vnode = rc.v]))))

\* A timer callback that does not look at _isUnmounted
didMountTimerUnguarded(w, instance) ==
    Let(componentDidMount(w, instance), LAMBDA w1 :
        Guard(w1, [w1 EXCEPT !.inst[instance]._isMounted = TRUE]))

\* The callback createDOMElement hands to setTimeout(..., 0)
didMountTimer(w, instance) ==
    IF ~w.inst[instance]._isUnmounted
    THEN     Let(componentDidMount(w, instance), LAMBDA w1 :
            Guard(w1, [w1 EXCEPT !.inst[instance]._isMounted = TRUE]))
    ELSE w

-----------------------------------------------------------------------------
(* The pre-reconciling implementation, src/picojsx.js.  Its h() returns    *)
(* `new Class(props)` for a class component, so a description of a class   *)
(* component stands for a fresh instance, constructed when the description *)
(* is built.                                                               *)

RECURSIVE disposeNode(_, _, _), disposeEach(_, _, _, _)
RECURSIVE buildDomAndCollectMounts(_, _, _), buildChildren(_, _, _, _, _)

\* Array.from(node.childNodes).forEach(child => disposeNode(child, updatingInstance))
disposeEach(w, kids, k, updatingInstance) ==
    IF w.err \/ k > Len(kids) THEN w
    ELSE disposeEach(disposeNode(w, kids[k], updatingInstance), kids, k + 1,
                     updatingInstance)

\* A disposal walk that does not spare the instance being updated
disposeNodeUnspared(w, node, updatingInstance) ==
    IF w.err THEN w
    ELSE LET w0 == Emit(w, <<"disposeNode", node>>)
             instance == w0.nodes[node].pico
             IN Let(IF instance # NoInst
                      /\ w0.inst[instance]._isMounted /\ ~w0.inst[instance]._isUnmounted
                   THEN     Let(componentWillUnmount(w0, instance), LAMBDA w01 :
                           Guard(w01, [w01 EXCEPT !.inst[instance]._isUnmounted = TRUE,
                                                  !.inst[instance]._isMounted = FALSE]))
                   ELSE w0, LAMBDA w1 :
            disposeEach(w1, w1.nodes[node].kids, 1, updatingInstance))

\* disposeNode(node, updatingInstance): componentWillUnmount for the mounted
\* instance the node is tagged with, unless it is the one updating, then the
\* same for the node's children
disposeNode(w, node, updatingInstance) ==
    IF w.err THEN w
    ELSE LET w0 == Emit(w, <<"disposeNode", node>>)
             instance == w0.nodes[node].pico
             IN Let(IF instance # NoInst /\ instance # updatingInstance
                      /\ w0.inst[instance]._isMounted /\ ~w0.inst[instance]._isUnmounted
                   THEN     Let(componentWillUnmount(w0, instance), LAMBDA w01 :
                           Guard(w01, [w01 EXCEPT !.inst[instance]._isUnmounted = TRUE,
                                                  !.inst[instance]._isMounted = FALSE]))
                   ELSE w0, LAMBDA w1 :
            disposeEach(w1, w1.nodes[node].kids, 1, updatingInstance))

\* applyProps(element, props) as _buildDomAndCollectMounts calls it, with no
\* old props: className becomes the class attribute, a string value an
\* attribute.
legacyApplyProps(w, element, props) ==
    ApplyEach(w, element, props, PropNames(props) \ {"children", "key", "_PicoInstance"})

\* Component.update() of the pre-reconciling implementation is defined below;
\* a constructor that calls setState reaches it before the instance is mounted.
legacyConstruct(w, cls, props) ==
    IF w.err THEN w
    ELSE     Let([w EXCEPT !.inst = Append(@, NewInstance(cls, props))], LAMBDA w1 :
             Let(Len(w1.inst), LAMBDA i :
            IF cls = "Early"
            THEN [w1 EXCEPT !.inst[i]._prevState = w1.inst[i].state,
                            !.inst[i].gBase = w1.inst[i].state,
                            !.inst[i].state = Merge(@, [count |-> 1])]
            ELSE w1))

\* children.flat().forEach(child => parent.appendChild(build(child, mountQueue)))
buildChildren(w, parent, children, k, mountQueue) ==
    IF k > Len(children) THEN [w |-> w, mq |-> mountQueue]
    ELSE     Let(buildDomAndCollectMounts(w, children[k], mountQueue), LAMBDA rc :
             Let(appendChild(rc.w, parent, rc.dom), LAMBDA w1 :
            buildChildren(w1, parent, children, k + 1, rc.mq)))

\* _buildDomAndCollectMounts(input, mountQueue), given the instance that h()
\* made of a class component's description
buildInstance(w, instance, mountQueue) ==
        Let(IF w.inst[instance]._dom = NoNode
              THEN     Let(ClassRender(w.inst[instance].cls,
                                                   w.inst[instance].props,
                                                   w.inst[instance].state), LAMBDA renderOutput :
                       Let(buildDomAndCollectMounts(Emit(w, <<"render", instance>>),
                                                    renderOutput, mountQueue), LAMBDA rb :
                       Let(Guard(rb.w, [rb.w EXCEPT !.inst[instance]._dom = rb.dom,
                                                      !.inst[instance].gContent =
                                                          Content(rb.w, rb.dom)]), LAMBDA w1 :
                       Let(Guard(w1, [w1 EXCEPT !.nodes[rb.dom].pico = instance]), LAMBDA w2 :
                      [w |-> w2, mq |-> rb.mq]))))
              ELSE [w |-> w, mq |-> mountQueue], LAMBDA rc :
        Let(IF ~rc.w.err /\ ~rc.w.inst[instance]._isMounted
                  /\ ~rc.w.inst[instance]._isUnmounted
                  /\ SeqIndexOf(rc.mq, instance) = 0
               THEN Append(rc.mq, instance) ELSE rc.mq, LAMBDA mq2 :
       [w |-> rc.w, dom |-> rc.w.inst[instance]._dom, mq |-> mq2]))

buildDomAndCollectMounts(w, input, mountQueue) ==
    IF w.err THEN [w |-> w, dom |-> NoNode, mq |-> mountQueue]
    ELSE IF input = NoVNode
    THEN     Let(createTextNode(w, ""), LAMBDA w1 :
            [w |-> w1, dom |-> LastNode(w1), mq |-> mountQueue])
    ELSE IF input.type = "#text"
    THEN     Let(createTextNode(w, input.text), LAMBDA w1 :
            [w |-> w1, dom |-> LastNode(w1), mq |-> mountQueue])
    ELSE IF isPicoClassComponent(input.type)
    THEN     Let(legacyConstruct(w, input.type, input.props), LAMBDA w1 :
            buildInstance(w1, Len(w1.inst), mountQueue))
    ELSE IF input.type = Fragment
    THEN     Let(createDocumentFragment(w), LAMBDA w1 :
             Let(LastNode(w1), LAMBDA fragment :
             Let(buildChildren(w1, fragment, input.children, 1, mountQueue), LAMBDA rc :
            [w |-> rc.w, dom |-> fragment, mq |-> rc.mq])))
    ELSE \* typeof type === 'string'
             Let(createElement(w, input.type), LAMBDA w1 :
             Let(LastNode(w1), LAMBDA element :
             Let(legacyApplyProps(w1, element, input.props), LAMBDA w2 :
             Let(buildChildren(w2, element, input.children, 1, mountQueue), LAMBDA rc :
             \* if (props?.ref) { ... }: the ref is given the element once more
             Let(IF ~rc.w.err /\ PropHas(input.props, "ref")
                    /\ (IsFunction(PropGet(input.props, "ref"))
                        \/ PropGet(input.props, "ref") \in RefObjects)
                 THEN setRef(rc.w, PropGet(input.props, "ref"), element)
                 ELSE rc.w, LAMBDA w3 :
            [w |-> w3, dom |-> element, mq |-> rc.mq])))))

\* The connected test of the two places that call componentDidMount
legacyIsConnected(w, comp, parent) ==
    IF w.inst[comp]._startMarker # NoNode /\ w.inst[comp]._endMarker # NoNode
    THEN w.nodes[w.inst[comp]._startMarker].parent = parent
         /\ w.nodes[w.inst[comp]._endMarker].parent = parent
    ELSE IF w.inst[comp]._dom # NoNode THEN isConnected(w, w.inst[comp]._dom)
    ELSE FALSE

\* uniqueChildrenMountQueue.forEach(comp => ...) of update()
RECURSIVE mountChildren(_, _, _, _)
mountChildren(w, queue, k, parent) ==
    IF w.err \/ k > Len(queue) THEN w
    ELSE LET comp == queue[k] IN
         IF legacyIsConnected(w, comp, parent) /\ ~w.inst[comp]._isMounted
            /\ ~w.inst[comp]._isUnmounted
         THEN     Let(tryDidMount(w, comp), LAMBDA w1 :
                 mountChildren([w1 EXCEPT !.inst[comp]._isMounted = TRUE,
                                          !.inst[comp]._isUnmounted = FALSE],
                               queue, k + 1, parent))
         ELSE mountChildren(w, queue, k + 1, parent)

\* The loop of update() that removes the nodes between a fragment root's markers
RECURSIVE disposeBetween(_, _, _, _, _)
disposeBetween(w, parent, currentNode, oldEndMarker, self) ==
    IF w.err \/ currentNode = NoNode \/ currentNode = oldEndMarker THEN w
    ELSE     Let(nextSibling(w, currentNode), LAMBDA next :
             Let(disposeNode(w, currentNode, self), LAMBDA w1 :
             Let(removeChild(w1, parent, currentNode), LAMBDA w2 :
            disposeBetween(w2, parent, next, oldEndMarker, self))))

\* Component.update() of the pre-reconciling implementation.  The focus it
\* saves and restores is not part of the model.
legacyUpdate(w, i) ==
    IF w.err THEN w
    ELSE IF ~w.inst[i]._isMounted \/ w.inst[i]._isUnmounted
            \/ (w.inst[i]._dom = NoNode /\ w.inst[i]._startMarker = NoNode) THEN w
    ELSE LET me == w.inst[i]
             isFragmentRoot == me._startMarker # NoNode /\ me._endMarker # NoNode
             IN Let(IF isFragmentRoot THEN w.nodes[me._startMarker].parent
                             ELSE NoNode, LAMBDA markerParent :
             Let(IF isFragmentRoot THEN markerParent
                       ELSE IF me._dom # NoNode THEN w.nodes[me._dom].parent
                       ELSE NoNode, LAMBDA parent :
            IF isFragmentRoot /\ (markerParent = NoNode
                                  \/ markerParent # w.nodes[me._endMarker].parent)
            THEN w
            ELSE IF parent = NoNode THEN w
            ELSE LET prevStateForUpdate == me._prevState
                     w1 == Emit([w EXCEPT !.inst[i]._prevProps = me.props], <<"render", i>>)
                     IN Let(buildDomAndCollectMounts(w1,
                               ClassRender(me.cls, me.props, me.state), <<>>), LAMBDA rb :
                     Let(rb.dom, LAMBDA newDom :
                     Let(IF isFragmentRoot
                           THEN     Let(disposeBetween(rb.w, parent,
                                              nextSibling(rb.w, me._startMarker),
                                              me._endMarker, i), LAMBDA a1 :
                                    Let(insertBefore(a1, parent, newDom, me._endMarker), LAMBDA a2 :
                                    Let(IF IsDocFrag(a2, newDom) THEN a2
                                          ELSE createDocumentFragment(a2), LAMBDA a3 :
                                    Let(IF IsDocFrag(a2, newDom) THEN newDom
                                              ELSE LastNode(a3), LAMBDA holder :
                                    Let(IF IsDocFrag(a2, newDom) THEN a3
                                          ELSE appendChild(a3, holder, newDom), LAMBDA a4 :
                                   Guard(a4, [a4 EXCEPT !.inst[i]._dom = holder]))))))
                           ELSE     Let(IF me._dom # NoNode
                                          THEN disposeNode(rb.w, me._dom, i) ELSE rb.w, LAMBDA b1 :
                                    Let(replaceChild(b1, parent, newDom, me._dom), LAMBDA b2 :
                                   Guard(b2, [b2 EXCEPT !.inst[i]._dom = newDom,
                                                        !.inst[i]._startMarker = NoNode,
                                                        !.inst[i]._endMarker = NoNode]))), LAMBDA wf :
                     Let(IF ~wf.err /\ IsElement(wf, wf.inst[i]._dom)
                           THEN [wf EXCEPT !.nodes[wf.inst[i]._dom].pico = i] ELSE wf, LAMBDA w3 :
                     Let(mountChildren(w3, rb.mq, 1, parent), LAMBDA w4 :
                     Let(componentDidUpdate(w4, i, me.props,
                              IF prevStateForUpdate # NoState THEN prevStateForUpdate
                              ELSE w4.inst[i].state), LAMBDA w5 :
                    Guard(w5, [w5 EXCEPT !.inst[i]._prevState = NoState])))))))))

\* Component.setState(updater) of the pre-reconciling implementation, for an
\* object updater
legacySetState(w, i, updater) ==
    LET before == IF w.inst[i]._prevState # NoState THEN w.inst[i]._prevState
                  ELSE w.inst[i].state
        IN Let([w EXCEPT !.inst[i]._prevState = before,
                        !.inst[i].gBase = IF @ = NoState THEN w.inst[i].state ELSE @,
                        !.inst[i].state = Merge(@, updater)], LAMBDA w1 :
       IF w1.inst[i].autoUpdate THEN legacyUpdate(w1, i) ELSE w1)

\* parentDomElement.innerHTML = ''
RECURSIVE clearChildren(_, _)
clearChildren(w, parent) ==
    IF w.err \/ w.nodes[parent].kids = <<>> THEN w
    ELSE clearChildren(Unlink(w, w.nodes[parent].kids[1]), parent)

\* render(jsxInput, parentDomElement) of the pre-reconciling implementation
legacyRender(w, jsxInput, parentDomElement) ==
        Let(disposeEach(w, w.nodes[parentDomElement].kids, 1, NoInst), LAMBDA w1 :
        Let(clearChildren(w1, parentDomElement), LAMBDA w2 :
        Let(buildDomAndCollectMounts(w2, jsxInput, <<>>), LAMBDA rb :
        LET isInstance == jsxInput # NoVNode /\ isPicoClassComponent(jsxInput.type)
        \* the instance h() returned is the first one the build constructs
        IN Let(IF isInstance THEN Len(w2.inst) + 1 ELSE NoInst, LAMBDA topLevelInstance :
        Let(IF rb.w.err THEN FALSE
                          ELSE IF isInstance
                          THEN IsDocFrag(rb.w, rb.w.inst[topLevelInstance]._dom)
                          ELSE IsDocFrag(rb.w, rb.dom), LAMBDA isRootFragment :
        Let(IF isRootFragment
              THEN     Let(createComment(rb.w, "Pico Start"), LAMBDA c1 :
                       Let(LastNode(c1), LAMBDA startMarker :
                       Let(createComment(c1, "Pico End"), LAMBDA c2 :
                       Let(LastNode(c2), LAMBDA endMarker :
                       Let(appendChild(c2, parentDomElement, startMarker), LAMBDA c3 :
                       Let(appendChild(c3, parentDomElement, rb.dom), LAMBDA c4 :
                       Let(appendChild(c4, parentDomElement, endMarker), LAMBDA c5 :
                      IF isInstance
                      THEN Guard(c5, [c5 EXCEPT
                                !.inst[topLevelInstance]._startMarker = startMarker,
                                !.inst[topLevelInstance]._endMarker = endMarker])
                      ELSE c5)))))))
              ELSE     Let(appendChild(rb.w, parentDomElement, rb.dom), LAMBDA d1 :
                      IF isInstance
                      THEN Guard(d1, [d1 EXCEPT
                                !.inst[topLevelInstance]._startMarker = NoNode,
                                !.inst[topLevelInstance]._endMarker = NoNode])
                      ELSE d1), LAMBDA w3 :
       Guard(w3, [w3 EXCEPT !.timers = Append(@, [kind |-> "mountQueue",
                                inst |-> NoInst, queue |-> rb.mq])])))))))

\* uniqueMountQueue.forEach(componentInstance => ...) of render()'s timer
RECURSIVE mountQueueTimer(_, _, _, _)
mountQueueTimer(w, queue, k, parentDomElement) ==
    IF w.err \/ k > Len(queue) THEN w
    ELSE LET c == queue[k] IN
         IF ~w.inst[c]._isMounted /\ ~w.inst[c]._isUnmounted
            /\ legacyIsConnected(w, c, parentDomElement)
         THEN     Let(tryDidMount(w, c), LAMBDA w1 :
                 mountQueueTimer([w1 EXCEPT !.inst[c]._isMounted = TRUE,
                                            !.inst[c]._isUnmounted = FALSE],
                                 queue, k + 1, parentDomElement))
         ELSE mountQueueTimer(w, queue, k + 1, parentDomElement)

-----------------------------------------------------------------------------
(* createStore, the same code in both implementations                      *)
(* (src/unnamed/part_003 719-774, src/picojsx.js 509-566), without a       *)
(* storageKey.  The listeners are a Set, kept here in insertion order.     *)
(* The fields calls (the listener calls of the last setState, in order),   *)
(* err (the last operation raised), arg (its argument) and handles (the    *)
(* listeners whose unsubscribe handle the application holds) are           *)
(* observers.                                                              *)

\* The listeners of the application: two that only record their call, one
\* that throws after recording it, one that unsubscribes itself when called
StoreListeners == {"#l1", "#l2", "#boom", "#once"}

\* What the application passes to subscribe that is not a function
NonFunctions == {"null", "text"}

InitialStoreState == [a |-> 0]

\* The updaters of the application: objects, and the functions
\*   flip:  state => ({...state, a: 1 - state.a})
\*   reset: state => ({a: 0})
StoreUpdaters == { [a |-> 1], [b |-> 1], [fn |-> "flip"], [fn |-> "reset"] }

IsUpdaterFunction(updater) == "fn" \in DOMAIN updater

CallUpdater(updater, state) ==
    IF updater.fn = "flip" THEN [state EXCEPT !.a = 1 - @] ELSE [a |-> 0]

createStore(initialState) ==
    [state |-> initialState, listeners |-> <<>>, calls |-> <<>>, err |-> FALSE,
     arg |-> "none", handles |-> {}]

\* The store at the start of an operation
Entered(st, arg) == [st EXCEPT !.calls = <<>>, !.err = FALSE, !.arg = arg]

\* () => listeners.delete(listener)
unsubscribe(st, listener) ==
    [st EXCEPT !.listeners = SeqRemove(@, listener)]

\* try { listener(state, oldState); } catch (e) { console.error(...); }
callListener(st, listener, oldState) ==
    LET st1 == [st EXCEPT !.calls = Append(@, <<listener, st.state, oldState>>)]
    IN IF listener = "#once" THEN unsubscribe(st1, listener) ELSE st1

\* A notification that stops at the first listener that throws
RECURSIVE notifyUntilThrow(_, _, _)
notifyUntilThrow(st, k, oldState) ==
    IF k > Len(st.listeners) THEN st
    ELSE LET listener == st.listeners[k]
             st1 == callListener(st, listener, oldState)
         IN IF listener = "#boom" THEN st1
            ELSE notifyUntilThrow(st1, IF SeqIndexOf(st1.listeners, listener) = 0
                                       THEN k ELSE k + 1, oldState)

\* listeners.forEach(listener => ...): the Set is walked in insertion order;
\* an entry deleted during the walk leaves the later ones to be visited
RECURSIVE notify(_, _, _)
notify(st, k, oldState) ==
    IF k > Len(st.listeners) THEN st
    ELSE LET listener == st.listeners[k]
             st1 == callListener(st, listener, oldState)
         IN notify(st1, IF SeqIndexOf(st1.listeners, listener) = 0 THEN k ELSE k + 1,
                   oldState)

storeSetState(st, updater) ==
    LET oldState == st.state
        st1 == [st EXCEPT !.state = IF IsUpdaterFunction(updater)
                                    THEN CallUpdater(updater, st.state)
                                    ELSE Merge(st.state, updater)]
    IN notify(st1, 1, oldState)

subscribe(st, listener) ==
    IF listener \notin StoreListeners THEN [st EXCEPT !.err = TRUE]
    ELSE IF SeqIndexOf(st.listeners, listener) # 0
    THEN [st EXCEPT !.handles = @ \cup {listener}]
    ELSE [st EXCEPT !.listeners = Append(@, listener), !.handles = @ \cup {listener}]

-----------------------------------------------------------------------------
(* The state machine.  Node 1 is the container element, attached to the    *)
(* document.  Each action is one call into the library from outside (the   *)
(* application's code or the timer queue), run to completion.              *)

Container == 1

ContainerNode ==
    [kind |-> "elem", data |-> "div", parent |-> NoNode, kids |-> <<>>, attrs |-> {},
     listeners |-> {}, vnode |-> NoVNode, pico |-> NoInst]

World == [nodes |-> nodes, inst |-> inst, timers |-> timers, ev |-> <<>>, err |-> FALSE]

\* What is remembered of the last call: the operation, the instance it was
\* called on, the descriptions and the live node it was given, the node it
\* returned and the children that node had before.
Call(op, i, a, b, dom, ret) ==
    [op |-> op, i |-> i, a |-> a, b |-> b, dom |-> dom, ret |-> ret, kids |-> <<>>,
     arg |-> {}]

\* Whether some node of the instance's render output is in the document
Attached(i) == \E k \in 1..Len(inst[i].gContent) : isConnected(World, inst[i].gContent[k])

Commit(w, call) ==
    /\ nodes' = w.nodes
    /\ inst' = [k \in 1..Len(w.inst) |->
                  IF k > Len(inst) THEN [w.inst[k] EXCEPT !.gBy = call.op]
                  ELSE w.inst[k]]
    /\ timers' = w.timers
    /\ ev' = w.ev
    /\ err' = w.err
    /\ last' = call
    /\ store' = store
    /\ router' = router

\* What the application hands to render()
RootInputs ==
    { h(c, {}, <<>>) : c \in Classes } \cup { h("div", {}, <<>>), NoVNode }

\* The objects the application hands to setState
Updaters(cls) ==
    CASE cls \in {"Toggle", "Board"} -> { [flag |-> 1], [flag |-> 0] }
      [] cls \in {"Parent", "Pair"} -> { [parentValue |-> 1] }
      [] OTHER -> { [count |-> 1], [count |-> 2] }

-----------------------------------------------------------------------------
(* The Router.  A path is the sequence of its segments: "/" is <<>>, "/a/b" *)
(* is <<"a", "b">>; a segment of a route path that starts with ":" is a    *)
(* parameter.                                                               *)

MaxRoutes == 2
MaxStack == 3

Root == <<>>

Params == {":id"}

\* key.slice(1)
ParamName(key) == CASE key = ":id" -> "id"

Paths == { Root, <<"a">>, <<"b">>, <<"a", "b">> }
RoutePaths == { Root, <<"a">>, <<":id">>, <<"a", ":id">> }
RouteComponents == {"Home", "Page"}

NoRoute == [component |-> "#null", params |-> {}]

\* new Router(), with the location at "/"
NewRouter ==
    [routes |-> <<>>, currentRoute |-> NoRoute, onRouteChange |-> FALSE,
     pathname |-> Root, entry |-> Root, redirects |-> 0, handled |-> <<>>,
     thrown |-> FALSE]

\* The router at the start of a call from outside
EnteredRouter(r) == [r EXCEPT !.redirects = 0, !.handled = <<>>, !.thrown = FALSE]

\* The position of the route registered under a path, 0 when there is none
RouteIndex(r, path) ==
    IF \E k \in 1..Len(r.routes) : r.routes[k].path = path
    THEN CHOOSE k \in 1..Len(r.routes) : r.routes[k].path = path
    ELSE 0

\* route(path, component): this.routes[path] = component; an object keeps
\* its keys in the order of their first assignment.
route(r, path, component) ==
    IF RouteIndex(r, path) = 0
    THEN [r EXCEPT !.routes = Append(@, [path |-> path, component |-> component])]
    ELSE [r EXCEPT !.routes[RouteIndex(r, path)].component = component]

\* path.match(new RegExp('^' + routePath.replace(/:[^/]+/g, '([^/]+)') + '$'))
RegexMatches(routePath, path) ==
    /\ Len(routePath) = Len(path)
    /\ \A k \in 1..Len(path) : routePath[k] \in Params \/ routePath[k] = path[k]

\* The params object built from the captures
ParamsOf(routePath, path) ==
    { <<ParamName(routePath[k]), path[k]>> :
         k \in { j \in 1..Len(routePath) : routePath[j] \in Params } }

matchRoute(r, path) ==
    IF RouteIndex(r, path) # 0
    THEN [component |-> r.routes[RouteIndex(r, path)].component, params |-> {}]
    ELSE IF \E k \in 1..Len(r.routes) : RegexMatches(r.routes[k].path, path)
    THEN LET k == CHOOSE j \in 1..Len(r.routes) :
                     /\ RegexMatches(r.routes[j].path, path)
                     /\ \A m \in 1..(j - 1) : ~RegexMatches(r.routes[m].path, path)
         IN [component |-> r.routes[k].component,
             params |-> ParamsOf(r.routes[k].path, path)]
    ELSE NoRoute

\* handleRoute() and navigate(path) call each other; depth is the number of
\* handleRoute frames on the call stack, and the engine throws a RangeError
\* when the stack is full.
RECURSIVE handleRoute(_, _), navigate(_, _, _)
handleRoute(r, depth) ==
    IF depth > MaxStack THEN [r EXCEPT !.thrown = TRUE]
    ELSE LET matched == matchRoute(r, r.pathname)
         IN IF matched # NoRoute
            THEN [r EXCEPT !.currentRoute = matched,
                           !.handled = IF r.onRouteChange
                                       THEN Append(@, <<matched.component, matched.params>>)
                                       ELSE @]
            ELSE navigate([r EXCEPT !.redirects = @ + 1], Root, depth)

navigate(r, path, depth) ==
    handleRoute([r EXCEPT !.pathname = path], depth + 1)

Init ==
    /\ impl \in {"recon", "legacy"}
    /\ nodes = <<ContainerNode>>
    /\ inst = <<>>
    /\ timers = <<>>
    /\ ev = <<>>
    /\ err = FALSE
    /\ last = Call("init", NoInst, NoVNode, NoVNode, NoNode, NoNode)
    /\ budget = [renders |-> MaxRenders, sets |-> MaxSetStates]
    /\ store = createStore(InitialStoreState)
    /\ router = NewRouter

\* PicoJSX.render(vnode, container)
Render ==
    /\ budget.renders > 0
    /\ \E vnode \in RootInputs :
          Commit(IF impl = "recon" THEN render(World, vnode, Container)
                 ELSE legacyRender(World, vnode, Container),
                 Call("render", NoInst, vnode, NoVNode, NoNode, NoNode))
    /\ budget' = [budget EXCEPT !.renders = @ - 1]
    /\ UNCHANGED impl

\* instance.setState(updater)
SetState ==
    /\ budget.sets > 0
    /\ \E i \in 1..Len(inst) : \E updater \in Updaters(inst[i].cls) :
          Commit(IF impl = "recon" THEN setState(World, i, updater)
                 ELSE legacySetState(World, i, updater),
                 Call("setState", i, NoVNode, NoVNode, NoNode, NoNode))
    /\ budget' = [budget EXCEPT !.sets = @ - 1]
    /\ UNCHANGED impl

\* instance.update()
Update ==
    /\ budget.sets > 0
    /\ \E i \in 1..Len(inst) :
          Commit(IF impl = "recon" THEN update(World, i) ELSE legacyUpdate(World, i),
                 Call("update", i, NoVNode, NoVNode, NoNode, NoNode))
    /\ budget' = [budget EXCEPT !.sets = @ - 1]
    /\ UNCHANGED impl

\* instance.autoUpdate = false (pre-reconciling implementation only)
SetManual ==
    /\ impl = "legacy"
    /\ budget.sets > 0
    /\ \E i \in 1..Len(inst) :
          /\ inst[i].autoUpdate
          /\ Commit([World EXCEPT !.inst[i].autoUpdate = FALSE],
                    Call("autoUpdate", i, NoVNode, NoVNode, NoNode, NoNode))
    /\ budget' = [budget EXCEPT !.sets = @ - 1]
    /\ UNCHANGED impl

\* instance.autoUpdate = false, as an assignment of its own: the calls of
\* setState that follow it are not followed by update().
Manual ==
    /\ impl = "legacy"
    /\ \E i \in 1..Len(inst) :
          /\ inst[i].autoUpdate
          /\ Commit([World EXCEPT !.inst[i].autoUpdate = FALSE],
                    Call("autoUpdate", i, NoVNode, NoVNode, NoNode, NoNode))
    /\ UNCHANGED <<impl, budget>>

\* The oldest pending timer fires.
Timer ==
    /\ timers # <<>>
    /\ LET t == Head(timers)
           due == IF t.kind = "didMount" THEN {t.inst} ELSE SeqToSet(t.queue)
           w == [World EXCEPT !.timers = Tail(@),
                              !.inst = [k \in 1..Len(inst) |->
                                  IF k \in due
                                  THEN [inst[k] EXCEPT !.gTimer =
                                           IF Attached(k) THEN "attached" ELSE "gone"]
                                  ELSE inst[k]]]
       IN Commit(IF t.kind = "didMount" THEN didMountTimer(w, t.inst)
                 ELSE mountQueueTimer(w, t.queue, 1, Container),
                 Call("timer", t.inst, NoVNode, NoVNode, NoNode, NoNode))
    /\ UNCHANGED <<impl, budget>>

Next == Render \/ SetState \/ Update \/ SetManual \/ Timer

Spec == Init /\ [][Next]_vars

-----------------------------------------------------------------------------
(* The hook workload (SpecHooks): the application of Spec with components  *)
(* whose lifecycle hooks throw.  An exception leaves the call that raised  *)
(* it (err); the application goes on calling the library afterwards.       *)

HookInputs == { h(c, {}, <<>>) : c \in {"Pair", "Fragile", "Counter"} } \cup { NoVNode }

\* PicoJSX.render(vnode, container)
RenderHooks ==
    /\ budget.renders > 0
    /\ \E vnode \in HookInputs :
          Commit(IF impl = "recon" THEN render(World, vnode, Container)
                 ELSE legacyRender(World, vnode, Container),
                 [Call("render", NoInst, vnode, NoVNode, NoNode, NoNode)
                    EXCEPT !.kids = nodes[Container].kids])
    /\ budget' = [budget EXCEPT !.renders = @ - 1]
    /\ UNCHANGED impl

NextHooks == RenderHooks \/ SetState \/ Update \/ Timer

SpecHooks == Init /\ [][NextHooks]_vars

-----------------------------------------------------------------------------
(* The keyed-component workload (SpecBoard): the application of Spec with  *)
(* a component whose list holds keyed components; under one key it renders *)
(* a component or a span, as its state says.                               *)

BoardInputs == { h("Board", {}, <<>>), NoVNode }

\* PicoJSX.render(vnode, container)
RenderBoard ==
    /\ impl = "recon"
    /\ budget.renders > 0
    /\ \E vnode \in BoardInputs :
          Commit(render(World, vnode, Container),
                 Call("render", NoInst, vnode, NoVNode, NoNode, NoNode))
    /\ budget' = [budget EXCEPT !.renders = @ - 1]
    /\ UNCHANGED impl

NextBoard == RenderBoard \/ SetState \/ Update \/ Timer

SpecBoard == Init /\ [][NextBoard]_vars

-----------------------------------------------------------------------------
(* The debounce workload (SpecDebounce): the application of Spec with a    *)
(* component whose constructor sets updateDebounceDelay.                   *)

DebounceInputs ==
    { h("Debounced", props, <<>>) :
        props \in { {}, {<<"debounceDelay", "100">>}, {<<"debounceDelay", "0">>} } }
    \cup { h("Counter", {}, <<>>), NoVNode }

\* PicoJSX.render(vnode, container)
RenderDebounced ==
    /\ budget.renders > 0
    /\ \E vnode \in DebounceInputs :
          Commit(IF impl = "recon" THEN render(World, vnode, Container)
                 ELSE legacyRender(World, vnode, Container),
                 Call("render", NoInst, vnode, NoVNode, NoNode, NoNode))
    /\ budget' = [budget EXCEPT !.renders = @ - 1]
    /\ UNCHANGED impl

NextDebounce == RenderDebounced \/ SetState \/ Update \/ Timer

SpecDebounce == Init /\ [][NextDebounce]_vars

-----------------------------------------------------------------------------
(* The reconciliation workload (SpecDiff): a root component of the         *)
(* reconciling implementation whose render output is first one description *)
(* and then another.  Mount is what render() does with the first output;   *)
(* Reconcile is the diff call Component.update() makes with the old and    *)
(* the new output.                                                         *)

SeqsUpTo(S, n) == UNION { [1..m -> S] : m \in 0..n }

KeyedKeys == {"n1", "n2", "n3", "n4", "s1"}

\* A keyed list: li elements, one of which may be a div instead
KeyedLists ==
    { [j \in 1..Len(ks) |->
          h(IF j = odd THEN "div" ELSE "li", {<<"key", ks[j]>>}, <<>>)] :
        <<ks, odd>> \in
          { x \in SeqsUpTo(KeyedKeys, MaxLen) \X (0..MaxLen) :
              /\ x[2] <= Len(x[1])
              /\ \A i, j \in 1..Len(x[1]) : i # j => x[1][i] # x[1][j] } }

PlainKids ==
    { VText("a"), VText("b"), h("span", {}, <<>>), h("span", {<<"id", "k">>}, <<>>),
      h("b", {}, <<>>) }

PlainProps ==
    { {}, {<<"id", "a">>}, {<<"id", "b">>, <<"className", "x">>} }

KeyedInputs == { h("ul", {}, c) : c \in KeyedLists }

\* Unkeyed lists of strings: h('div', null, 'x', 'y', 'z')
TextKids == { VText("x"), VText("y"), VText("z") }

TextInputs == { h("div", {}, c) : c \in SeqsUpTo(TextKids, MaxLen) }

PlainInputs ==
    { h("div", pr, c) : pr \in PlainProps, c \in SeqsUpTo(PlainKids, MaxKids) }
    \cup { VText("a"), VText("b") }

InitDiff ==
    /\ impl = "recon"
    /\ nodes = <<ContainerNode>>
    /\ inst = <<>>
    /\ timers = <<>>
    /\ ev = <<>>
    /\ err = FALSE
    /\ last = Call("init", NoInst, NoVNode, NoVNode, NoNode, NoNode)
    /\ budget = [renders |-> 0, sets |-> 0]
    /\ store = createStore(InitialStoreState)
    /\ router = NewRouter

MountOf(family) ==
    /\ last.op = "init"
    /\ \E vnode \in family :
          LET w == render(World, vnode, Container)
          IN Commit(w, Call("mount", NoInst, w.nodes[Container].vnode, NoVNode,
                            childAt(w, Container, 0), NoNode))
    /\ UNCHANGED <<impl, budget>>

ReconcileWith(family) ==
    /\ last.op = "mount"
    /\ last.a \in family
    /\ \E vnode \in family :
          LET rc == diff(World, Container, last.dom, last.a, vnode, 0)
          IN Commit(rc.w, [Call("diff", NoInst, last.a, vnode, last.dom, rc.dom)
                             EXCEPT !.kids = nodes[last.dom].kids])
    /\ UNCHANGED <<impl, budget>>

MountKeyed == MountOf(KeyedInputs)
MountPlain == MountOf(PlainInputs)
ReconcileKeyed == ReconcileWith(KeyedInputs)
ReconcilePlain == ReconcileWith(PlainInputs)
MountTexts == MountOf(TextInputs)
ReconcileTexts == ReconcileWith(TextInputs)

NextDiff ==
    MountKeyed \/ MountPlain \/ MountTexts \/ ReconcileKeyed \/ ReconcilePlain
    \/ ReconcileTexts

SpecDiff == InitDiff /\ [][NextDiff]_vars

-----------------------------------------------------------------------------
(* The tree workload (SpecTree): the mounts and reconciliations of         *)
(* SpecDiff for descriptions with components among the children            *)
(* (Shape renders the element its props name).                             *)

ShapeKids ==
    { h("Shape", {<<"as", t>>}, <<>>) : t \in {"div", "span"} } \cup { h("b", {}, <<>>) }

ShapeInputs ==
    { h("div", {}, c) : c \in SeqsUpTo(ShapeKids, MaxKids) }
    \cup { h("Shape", {<<"as", t>>}, <<>>) : t \in {"div", "span"} }

\* PicoJSX.render(vnode, container) for a description of the family
MountTree(family, name) ==
    /\ last.op = "init"
    /\ \E vnode \in family :
          LET w == render(World, vnode, Container)
          IN Commit(w, [Call("mount", NoInst, w.nodes[Container].vnode, NoVNode,
                             childAt(w, Container, 0), NoNode)
                          EXCEPT !.arg = {<<"family", name>>}])
    /\ UNCHANGED <<impl, budget>>

\* diff(parentDOM, dom, oldVNode, newVNode, 0) for the container's first
\* child and another description of the family
ReconcileTree(family, name) ==
    /\ last.op = "mount"
    /\ last.arg = {<<"family", name>>}
    /\ \E vnode \in family :
          LET rc == diff(World, Container, last.dom, last.a, vnode, 0)
          IN Commit(rc.w, [Call("diff", NoInst, last.a, vnode, last.dom, rc.dom)
                             EXCEPT !.kids = nodes[last.dom].kids])
    /\ UNCHANGED <<impl, budget>>

MountShapes == MountTree(ShapeInputs, "shapes")
ReconcileShapes == ReconcileTree(ShapeInputs, "shapes")

\* Fragments of keyed li elements, as the root and as the only child of a div
FragmentKeys == {"n1", "n2", "n3"}

FragmentLists ==
    { [j \in 1..Len(ks) |-> h("li", {<<"key", ks[j]>>, <<"id", ks[j]>>}, <<>>)] :
        ks \in { x \in SeqsUpTo(FragmentKeys, MaxLen) :
                   \A i, j \in 1..Len(x) : i # j => x[i] # x[j] } }

FragmentInputs ==
    { h(Fragment, {}, c) : c \in FragmentLists }
    \cup { h("div", {}, <<h(Fragment, {}, c)>>) : c \in FragmentLists }

MountFragments == MountTree(FragmentInputs, "fragments")
ReconcileFragments == ReconcileTree(FragmentInputs, "fragments")

\* Keyed lists in which a key may occur twice
RepeatKids ==
    { h("li", {<<"key", "n1">>}, <<>>), h("li", {<<"key", "n2">>}, <<>>),
      h("div", {<<"key", "n1">>}, <<>>) }

RepeatInputs == { h("ul", {}, c) : c \in SeqsUpTo(RepeatKids, MaxLen) }

MountRepeats == MountTree(RepeatInputs, "repeats")
ReconcileRepeats == ReconcileTree(RepeatInputs, "repeats")

\* Lists that mix keyed and unkeyed tags and texts; the keys of a list are
\* unique
MixedKids ==
    { h("li", {<<"key", "n1">>}, <<>>), h("li", {<<"key", "n2">>}, <<>>),
      h("div", {<<"key", "n1">>}, <<>>), h("li", {}, <<>>),
      h("li", {<<"className", "x">>}, <<>>), VText("a") }

MixedInputs ==
    { h("ol", {}, c) :
        c \in { x \in SeqsUpTo(MixedKids, MaxLen) :
                  \A i, j \in 1..Len(x) :
                     (i # j /\ x[i].key # NoKey) => x[i].key # x[j].key } }

MountMixed == MountTree(MixedInputs, "mixed")
ReconcileMixed == ReconcileTree(MixedInputs, "mixed")

\* Fragments among the children of a section, one of them with a fragment
\* inside, and the same descriptions as the root
NestKids ==
    { h(Fragment, {}, <<>>),
      h(Fragment, {}, <<h("p", {}, <<>>)>>),
      h(Fragment, {}, <<h(Fragment, {}, <<h("b", {}, <<>>)>>), h("i", {}, <<>>)>>),
      h(Fragment, {}, <<h(Fragment, {}, <<h("b", {}, <<>>)>>),
                        h("i", {<<"id", "x">>}, <<>>)>>),
      h("span", {<<"id", "a">>}, <<>>),
      h("span", {<<"id", "b">>}, <<>>) }

NestInputs ==
    { h("section", {}, c) : c \in SeqsUpTo(NestKids, MaxKids) } \cup NestKids

MountNests == MountTree(NestInputs, "nests")
ReconcileNests == ReconcileTree(NestInputs, "nests")

NextTree ==
    MountShapes \/ ReconcileShapes \/ MountFragments \/ ReconcileFragments
    \/ MountRepeats \/ ReconcileRepeats \/ MountMixed \/ ReconcileMixed
    \/ MountNests \/ ReconcileNests

SpecTree == InitDiff /\ [][NextTree]_vars

-----------------------------------------------------------------------------
(* The property workload (SpecProps): descriptions that carry event        *)
(* handlers, styles and refs, fragments and components among them.  The    *)
(* container holds nothing or a node the library did not make; the         *)
(* application renders into it, and then either renders again or the       *)
(* position is reconciled against another description, as diffChildren     *)
(* does for the first child of a parent.                                   *)

PropBags ==
    { on \cup st \cup rf :
        on \in { {}, {<<"onClick", "#f">>}, {<<"onClick", "#g">>} },
        st \in { {}, {<<"style", "#red1">>}, {<<"style", "#red2">>},
                 {<<"style", "#blue1">>} },
        rf \in { {}, {<<"ref", "#cb1">>}, {<<"ref", "#ref1">>} } }

PropKids ==
    { <<>>,
      << h("span", {<<"ref", "#cb2">>, <<"onInput", "#f">>}, <<>>) >>,
      << h("span", {<<"onInput", "#g">>}, <<>>) >> }

FragKids ==
    { h("p", {<<"ref", "#cb1">>}, <<>>),
      h("div", {}, << h("span", {<<"ref", "#ref1">>}, <<>>) >>) }

PropInputs ==
    { h("div", bag, c) : bag \in PropBags, c \in PropKids }
    \cup { h(Fragment, {}, c) : c \in SeqsUpTo(FragKids, MaxKids) }
    \cup { h("div", {}, << h(Fragment, {}, << h("p", {<<"ref", "#cb1">>}, <<>>) >>) >>),
           h("Counter", {}, <<>>), h("Group", {}, <<>>), VText("a"), NoVNode }

\* A node the library did not make
ForeignNode ==
    [kind |-> "elem", data |-> "i", parent |-> Container, kids |-> <<>>, attrs |-> {},
     listeners |-> {}, vnode |-> NoVNode, pico |-> NoInst]

InitProps ==
    /\ impl = "recon"
    /\ nodes \in { <<ContainerNode>>,
                   <<[ContainerNode EXCEPT !.kids = <<2>>], ForeignNode>> }
    /\ inst = <<>>
    /\ timers = <<>>
    /\ ev = <<>>
    /\ err = FALSE
    /\ last = Call("init", NoInst, NoVNode, NoVNode, NoNode, NoNode)
    /\ budget = [renders |-> 0, sets |-> 0]
    /\ store = createStore(InitialStoreState)
    /\ router = NewRouter

\* PicoJSX.render(vnode, container), the first time ("mount") and once more
RenderProps ==
    /\ last.op \in {"init", "mount"}
    /\ \E vnode \in PropInputs :
          LET w == render(World, vnode, Container)
          IN Commit(w, [Call(IF last.op = "init" THEN "mount" ELSE "render", NoInst,
                             nodes[Container].vnode, vnode, childAt(w, Container, 0),
                             NoNode)
                          EXCEPT !.kids = nodes[Container].kids])
    /\ UNCHANGED <<impl, budget>>

\* diff(parentDOM, dom, oldVNode, newVNode, 0) for the container's first child
ReconcileProps ==
    /\ last.op = "mount"
    /\ \E vnode \in PropInputs :
          LET rc == diff(World, Container, last.dom, nodes[Container].vnode, vnode, 0)
          IN Commit(rc.w, [Call("diff", NoInst, nodes[Container].vnode, vnode, last.dom,
                                rc.dom)
                             EXCEPT !.kids = nodes[last.dom].kids])
    /\ UNCHANGED <<impl, budget>>

NextProps == RenderProps \/ ReconcileProps

SpecProps == InitProps /\ [][NextProps]_vars

-----------------------------------------------------------------------------
(* The factory workload (SpecH): the application calls h with a props bag  *)
(* that holds a key, and renders the description it gets.                  *)

HTypes == {"li", "div", "Counter"}

HProps == { {}, {<<"id", "a">>}, {<<"className", "x">>, <<"onClick", "#f">>} }

HKids == { <<>>, <<VText("a")>>, <<h("span", {<<"key", "n1">>}, <<>>), VText("b")>> }

\* const vnode = h(type, {...props, key}, ...children); render(vnode, container)
Describe ==
    /\ last.op = "init"
    /\ \E type \in HTypes, key \in KeyTokens, props \in HProps, children \in HKids :
          LET bag == props \cup {<<"key", key>>}
              vnode == h(type, bag, children)
              w == render(World, vnode, Container)
          IN Commit(w, [Call("h", NoInst, NoVNode, vnode, childAt(w, Container, 0), NoNode)
                          EXCEPT !.arg = bag])
    /\ UNCHANGED <<impl, budget>>

NextH == Describe

SpecH == InitDiff /\ [][NextH]_vars

-----------------------------------------------------------------------------
(* The handler workload (SpecHandlers): the tests' EventTest component is  *)
(* rendered, its state is set up to MaxUpdates times, and events are       *)
(* dispatched at its elements.                                             *)

MaxUpdates == 2

\* element.dispatchEvent(new Event(type, {bubbles: true})): the listeners of
\* the type on the target and then on each ancestor are called; a call is
\* recorded as the event <<handler, element>>.
RECURSIVE callListeners(_, _, _)
callListeners(w, n, todo) ==
    IF todo = {} THEN w
    ELSE LET l == CHOOSE x \in todo : TRUE
         IN callListeners(Emit(w, <<l[2], n>>), n, todo \ {l})

RECURSIVE dispatchEvent(_, _, _)
dispatchEvent(w, n, type) ==
    IF n = NoNode THEN w
    ELSE dispatchEvent(callListeners(w, n, { l \in w.nodes[n].listeners : l[1] = type }),
                       w.nodes[n].parent, type)

EventTypes == {"click", "input"}

HandlerViews ==
    [click : Handlers \cup {"none"}, input : {"#f", "none"}, kid : Handlers \cup {"none"}]

InitHandlers ==
    /\ impl = "recon"
    /\ nodes = <<ContainerNode>>
    /\ inst = <<>>
    /\ timers = <<>>
    /\ ev = <<>>
    /\ err = FALSE
    /\ last = Call("init", NoInst, NoVNode, NoVNode, NoNode, NoNode)
    /\ budget = [renders |-> 1, sets |-> MaxUpdates]
    /\ store = createStore(InitialStoreState)
    /\ router = NewRouter

\* PicoJSX.render(h(EventTest), container)
RenderHandlers ==
    /\ budget.renders > 0
    /\ Commit(render(World, h("EventTest", {}, <<>>), Container),
              Call("render", NoInst, NoVNode, NoVNode, NoNode, NoNode))
    /\ budget' = [budget EXCEPT !.renders = @ - 1]
    /\ UNCHANGED impl

\* instance.setState({...})
SetHandlers ==
    /\ budget.sets > 0
    /\ \E i \in 1..Len(inst) : \E view \in HandlerViews :
          Commit(setState(World, i, view),
                 Call("setState", i, NoVNode, NoVNode, NoNode, NoNode))
    /\ budget' = [budget EXCEPT !.sets = @ - 1]
    /\ UNCHANGED impl

\* An event of one of the types is dispatched at an element in the container
DispatchAt ==
    /\ \E n \in 2..Len(nodes) : \E type \in EventTypes :
          /\ IsElement(World, n) /\ isConnected(World, n)
          /\ Commit(dispatchEvent(World, n, type),
                    [Call("dispatch", NoInst, NoVNode, NoVNode, n, NoNode)
                       EXCEPT !.arg = type])
    /\ UNCHANGED <<impl, budget>>

NextHandlers == RenderHandlers \/ SetHandlers \/ DispatchAt \/ Timer

SpecHandlers == InitHandlers /\ [][NextHandlers]_vars

-----------------------------------------------------------------------------
(* The ref workload (SpecRefs): both implementations render elements whose *)
(* props carry a ref, a callback or an object.                             *)

RefInputs ==
    { h(tag, {<<"ref", ref>>} \cup props, children) :
        tag \in {"div", "span"}, ref \in {"#cb1", "#ref1"},
        props \in { {}, {<<"id", "a">>} },
        children \in { <<>>, <<VText("a")>>, <<h("b", {<<"ref", "#cb2">>}, <<>>)>> } }
    \cup { NoVNode }

\* PicoJSX.render(h('div', { ref }), container)
RenderRefs ==
    /\ budget.renders > 0
    /\ \E vnode \in RefInputs :
          LET w == IF impl = "recon" THEN render(World, vnode, Container)
                   ELSE legacyRender(World, vnode, Container)
          IN Commit(w, Call("render", NoInst, vnode, NoVNode, childAt(w, Container, 0),
                            NoNode))
    /\ budget' = [budget EXCEPT !.renders = @ - 1]
    /\ UNCHANGED impl

NextRefs == RenderRefs

SpecRefs == Init /\ [][NextRefs]_vars

-----------------------------------------------------------------------------
(* The store workload (SpecStore): the application subscribes listeners,   *)
(* calls the unsubscribe handles it was given and sets the state.          *)

StoreStep(op, st) ==
    /\ store' = st
    /\ err' = st.err
    /\ last' = Call(op, NoInst, NoVNode, NoVNode, NoNode, NoNode)
    /\ UNCHANGED <<impl, nodes, inst, timers, ev, budget, router>>

\* store.setState(updater)
StoreSetState ==
    \E updater \in StoreUpdaters :
        StoreStep("store.setState", storeSetState(Entered(store, updater), updater))

\* store.subscribe(listener)
Subscribe ==
    \E listener \in StoreListeners \cup NonFunctions :
        StoreStep("store.subscribe", subscribe(Entered(store, listener), listener))

\* The handle an earlier subscribe(listener) returned is called
Unsubscribe ==
    \E listener \in store.handles :
        StoreStep("store.unsubscribe", unsubscribe(Entered(store, listener), listener))

NextStore == StoreSetState \/ Subscribe \/ Unsubscribe

SpecStore == Init /\ [][NextStore]_vars

-----------------------------------------------------------------------------
(* Properties of the reconciliation workload (SpecDiff).                   *)

\* The children of the reconciled node: described before and after, live
\* before and after
OldChildren == last.a.children
NewChildren == last.b.children
OldNodes == last.kids
NewNodes == nodes[last.dom].kids

WalkedBy(name, n) == \E k \in 1..Len(ev) : ev[k] = <<name, n>>

KeyedReconcile == last.op = "diff" /\ last.a.type = "ul" /\ last.b.type = "ul"

\* One live element per new child, in the order of the new list
OneNodePerChild ==
    /\ ~err
    /\ last.ret = last.dom
    /\ Len(NewNodes) = Len(NewChildren)
    /\ \A j \in 1..Len(NewChildren) :
          /\ nodes[NewNodes[j]].kind = "elem"
          /\ nodes[NewNodes[j]].data = NewChildren[j].type
          /\ nodes[NewNodes[j]].parent = last.dom

\* C1 as stated: after diffChildren over keyed lists with sibling-unique keys
\* the parent holds one node per new child in order, a new child has the very
\* node of an old child if and only if the two share a key, and every old node
\* whose key is gone was walked by unmountComponent and detached.
C1_KeyedAsStated ==
    KeyedReconcile =>
        /\ OneNodePerChild
        /\ \A j \in 1..Len(NewChildren) : \A i \in 1..Len(OldChildren) :
              (NewNodes[j] = OldNodes[i]) <=> (NewChildren[j].key = OldChildren[i].key)
        /\ \A i \in 1..Len(OldChildren) :
              (\A j \in 1..Len(NewChildren) : NewChildren[j].key # OldChildren[i].key)
                 => /\ WalkedBy("unmountComponent", OldNodes[i])
                    /\ nodes[OldNodes[i]].parent = NoNode

\* No two keyed children of the list have keys with the same string form
StringUnique(children) ==
    \A i, j \in 1..Len(children) :
        (i # j /\ HasKey(children[i]) /\ HasKey(children[j]))
           => KeyString(children[i].key) # KeyString(children[j].key)

\* C1, amended: for keyed lists whose keys are sibling-unique as strings, the
\* parent holds one node per new child in order; a new child has the very
\* node of an old child if and only if their keys have the same string form
\* and their tags are equal; an old node whose key is gone was walked by
\* unmountComponent and detached, and an old node whose key stayed under
\* another tag was replaced and detached.
C1_KeyedByStringAndTag ==
    (KeyedReconcile /\ StringUnique(OldChildren) /\ StringUnique(NewChildren)) =>
        /\ OneNodePerChild
        /\ \A j \in 1..Len(NewChildren) : \A i \in 1..Len(OldChildren) :
              (NewNodes[j] = OldNodes[i])
                 <=> /\ KeyString(NewChildren[j].key) = KeyString(OldChildren[i].key)
                     /\ NewChildren[j].type = OldChildren[i].type
        /\ \A i \in 1..Len(OldChildren) :
              IF \A j \in 1..Len(NewChildren) :
                    KeyString(NewChildren[j].key) # KeyString(OldChildren[i].key)
              THEN /\ WalkedBy("unmountComponent", OldNodes[i])
                   /\ nodes[OldNodes[i]].parent = NoNode
              ELSE \A j \in 1..Len(NewChildren) :
                      ( /\ KeyString(NewChildren[j].key) = KeyString(OldChildren[i].key)
                        /\ NewChildren[j].type # OldChildren[i].type )
                         => nodes[OldNodes[i]].parent = NoNode

\* [A(1), B(2), C(3)] was reconciled against [B(2), A(1), D(4)]: B's and A's
\* nodes have changed places, D's is new and C's is gone.
C1_Witness ==
    /\ last.op = "diff"
    /\ last.a.children = << h("li", {<<"key", "n1">>}, <<>>),
                            h("li", {<<"key", "n2">>}, <<>>),
                            h("li", {<<"key", "n3">>}, <<>>) >>
    /\ last.b.children = << h("li", {<<"key", "n2">>}, <<>>),
                            h("li", {<<"key", "n1">>}, <<>>),
                            h("li", {<<"key", "n4">>}, <<>>) >>
    /\ Len(NewNodes) = 3
    /\ NewNodes[1] = OldNodes[2]
    /\ NewNodes[2] = OldNodes[1]
    /\ NewNodes[3] \notin SeqToSet(OldNodes)
    /\ nodes[OldNodes[3]].parent = NoNode

\* The attribute a property is written to
AttrName(name) == IF name = "className" THEN "class" ELSE name

\* The attributes show the properties: each property is there with its
\* value, and nothing else is, but for a class attribute emptied when
\* className was dropped.
AttrsShow(attrs, props) ==
    /\ \A pr \in props : <<AttrName(pr[1]), pr[2]>> \in attrs
    /\ \A at \in attrs :
          \/ \E pr \in props : AttrName(pr[1]) = at[1]
          \/ at = <<"class", "">>

\* Live node n shows description v, children included
RECURSIVE Shows(_, _)
Shows(n, v) ==
    IF v.type = "#text"
    THEN nodes[n].kind = "text" /\ nodes[n].data = v.text
    ELSE /\ nodes[n].kind = "elem"
         /\ nodes[n].data = v.type
         /\ AttrsShow(nodes[n].attrs, v.props)
         /\ Len(nodes[n].kids) = Len(v.children)
         /\ \A k \in 1..Len(v.children) :
               /\ nodes[nodes[n].kids[k]].parent = n
               /\ Shows(nodes[n].kids[k], v.children[k])

\* What C3 promises of a reconciliation of two descriptions of one kind: the
\* node that was there is returned and stays in its place, patched to show
\* the new text, attributes and children; a tag's node refers back to the new
\* description, and a child position of the same kind and key keeps its node.
PatchedInPlace ==
    /\ ~err
    /\ last.ret = last.dom
    /\ nodes[Container].kids = <<last.dom>>
    /\ Shows(last.dom, last.b)
    /\ last.b.type # "#text" =>
          /\ nodes[last.dom].vnode = last.b
          /\ \A j \in 1..Len(NewChildren) :
                ( /\ j <= Len(OldChildren)
                  /\ OldChildren[j].type = NewChildren[j].type
                  /\ OldChildren[j].key = NewChildren[j].key )
                   => NewNodes[j] = OldNodes[j]

-----------------------------------------------------------------------------
(* Properties of the application workload (Spec).                          *)

Instances == 1..Len(inst)

\* Whether the last call ran the named hook of instance i
EvHas(name, i) == \E k \in 1..Len(ev) : ev[k] = <<name, i>>

\* The instances a description tree holds, at any depth
RECURSIVE NestedInstances(_)
NestedInstances(v) ==
    IF v = NoVNode THEN {}
    ELSE (IF v._instance # NoInst
          THEN {v._instance} \cup NestedInstances(inst[v._instance]._childVNode)
          ELSE {})
         \cup UNION { NestedInstances(v.children[k]) : k \in 1..Len(v.children) }

\* Old description o and new description n of one position keep the class
\* components they share: same instance, state untouched, props the newest.
RECURSIVE Keeps(_, _)
Keeps(o, n) ==
    IF o = NoVNode \/ n = NoVNode THEN TRUE
    ELSE IF o.type # n.type THEN TRUE
    ELSE IF isPicoClassComponent(o.type)
    THEN /\ o._instance # NoInst
         /\ n._instance = o._instance
         /\ inst'[o._instance].props = n.props
         /\ inst'[o._instance].state = inst[o._instance].state
         /\ inst'[o._instance].cls = o.type
    ELSE \A k \in 1..Len(n.children) :
            k <= Len(o.children) => Keeps(o.children[k], n.children[k])

\* C2: when a parent component of the reconciling implementation updates and
\* its render output keeps a class-component child of the same class at the
\* same position, the child is the same instance afterwards, no constructor
\* has run, the child's state is untouched and its props are those of the
\* newest description.
C2_ChildKept ==
    [][ \A i \in Instances :
          ( /\ impl = "recon"
            /\ last'.op \in {"setState", "update"}
            /\ last'.i = i
            /\ \E k \in 1..Len(ev') : ev'[k] = <<"componentDidUpdate", i>> )
          => /\ Keeps(inst[i]._childVNode, inst'[i]._childVNode)
             /\ (inst[i]._childVNode.type = inst'[i]._childVNode.type
                 => Len(inst') = Len(inst)) ]_vars

\* A Parent has re-rendered with a new value after its child changed its own
\* state: the child is still instance 2, with its state and the new prop.
C2_Witness ==
    /\ impl = "recon"
    /\ last.op = "setState"
    /\ Len(inst) = 2
    /\ inst[last.i].cls = "Parent"
    /\ EvHas("componentDidUpdate", last.i)
    /\ inst[last.i]._childVNode.children[2]._instance = 2
    /\ inst[2].state = [count |-> 2]
    /\ inst[2].props = {<<"someProp", "1">>}
    /\ inst[2].gDidUpdate = 2

\* C4: componentDidMount of an instance made by render() (or, reconciling
\* implementation, during an update) never runs inside the call that made it
\* but in a timer turn, at most once, and exactly once when the instance's
\* output is still in the document as its timer runs.
C4_MountOnce ==
    \A i \in Instances :
        /\ inst[i].gDidMount <= 1
        /\ (EvHas("componentDidMount", i) /\ (inst[i].gBy = "render" \/ impl = "recon")
               => last.op = "timer")
        /\ (inst[i].gTimer = "attached" => inst[i].gDidMount = 1)

\* C5: an instance made by render() whose output has left the document before
\* its deferred mount timer runs never gets componentDidMount, and gets
\* componentWillUnmount at most once.
C5_NoMountAfterDispose ==
    \A i \in Instances :
        (inst[i].gBy = "render" /\ inst[i].gTimer = "gone")
           => inst[i].gDidMount = 0 /\ inst[i].gWillUnmount <= 1

C6_Flags ==
    \A i \in Instances :
        /\ inst[i].gWillUnmount <= 1
        /\ ~(inst[i]._isMounted /\ inst[i]._isUnmounted)

C6_Absorbing ==
    \A i \in Instances :
        inst[i]._isUnmounted => inst'[i]._isUnmounted /\ ~inst'[i]._isMounted

\* C6: in both implementations componentWillUnmount runs at most once per
\* instance, _isMounted and _isUnmounted are never both true, and an instance
\* flagged unmounted stays unmounted and never becomes mounted again.
C6_UnmountOnce == []C6_Flags /\ [][C6_Absorbing]_vars

\* An unmounted instance was handed a setState after its one
\* componentWillUnmount.
C6_Witness ==
    /\ last.op = "setState"
    /\ inst[last.i]._isUnmounted
    /\ inst[last.i].gWillUnmount = 1
    /\ inst[last.i].gDidMount = 1

\* C7: componentWillUnmount runs only on an instance that was mounted: each
\* of its runs comes after a componentDidMount of that instance.
C7_UnmountOnlyMounted ==
    \A i \in Instances : inst[i].gWillUnmount > 0 => inst[i].gDidMount > 0

\* C8: when a component's update changes the kind of its root description,
\* the old live node is replaced by a freshly built one, which becomes the
\* component's node, and componentWillUnmount runs exactly once on every
\* mounted instance nested at any depth in the old subtree.
C8_ReplaceUnmountsNested ==
    [][ \A i \in Instances :
          ( /\ last'.op \in {"setState", "update"}
            /\ last'.i = i
            /\ \E k \in 1..Len(ev') : ev'[k] = <<"componentDidUpdate", i>>
            /\ inst[i]._childVNode # NoVNode
            /\ inst[i]._childVNode.type # inst'[i]._childVNode.type )
          => /\ inst'[i]._dom > Len(nodes)
             /\ nodes'[inst[i]._dom].parent = NoNode
             /\ nodes'[inst'[i]._dom].parent = nodes[inst[i]._dom].parent
             /\ \A c \in NestedInstances(inst[i]._childVNode) :
                   inst[c]._isMounted
                     => /\ inst'[c].gWillUnmount = 1
                        /\ \E k \in 1..Len(ev') : ev'[k] = <<"componentWillUnmount", c>> ]_vars

C10_PrevStateIsBatchBase ==
    \A i \in Instances :
        (inst[i].gDidUpdate > 0 /\ inst[i].gBaseAt # NoState)
           => inst[i].gPrev = inst[i].gBaseAt

-----------------------------------------------------------------------------
(* Properties of the property workload (SpecProps).                        *)

\* How many live nodes a description is materialized as at its position
RECURSIVE Width(_), WidthSum(_, _)
Width(v) ==
    IF v = NoVNode THEN 1
    ELSE IF v.type = Fragment THEN 2 + WidthSum(v.children, 1)
    ELSE IF isPicoClassComponent(v.type)
    THEN Width(ClassRender(v.type, v.props, InitialState(v.type)))
    ELSE 1

WidthSum(vs, k) == IF k > Len(vs) THEN 0 ELSE Width(vs[k]) + WidthSum(vs, k + 1)

\* The attributes and the listeners of an element that shows props
AttrsOf(props) ==
    { <<AttrName(pr[1]), IF pr[1] = "style" THEN StyleText(pr[2]) ELSE pr[2]>> :
        pr \in { q \in props : q[1] \notin OnNames \cup {"ref", "key", "children"} } }

ListenersOf(props) ==
    { <<EventName(pr[1]), pr[2]>> :
        pr \in { q \in props : q[1] \in OnNames /\ IsFunction(q[2]) } }

\* The live nodes ns are the materialization of description v: a text node,
\* an element with the attributes, listeners and children described, the two
\* markers around a fragment's children, the render output of a component
RECURSIVE Built(_, _), BuiltList(_, _, _)
Built(ns, v) ==
    IF v = NoVNode
    THEN Len(ns) = 1 /\ nodes[ns[1]].kind = "text" /\ nodes[ns[1]].data = ""
    ELSE IF v.type = "#text"
    THEN Len(ns) = 1 /\ nodes[ns[1]].kind = "text" /\ nodes[ns[1]].data = v.text
    ELSE IF v.type = Fragment
    THEN /\ Len(ns) = Width(v)
         /\ IsMarker(World, ns[1], "fragment-start")
         /\ IsMarker(World, ns[Len(ns)], "fragment-end")
         /\ BuiltList(SubSeq(ns, 2, Len(ns) - 1), v.children, 1)
    ELSE IF isPicoClassComponent(v.type)
    THEN Built(ns, ClassRender(v.type, v.props, InitialState(v.type)))
    ELSE /\ Len(ns) = 1
         /\ nodes[ns[1]].kind = "elem"
         /\ nodes[ns[1]].data = v.type
         /\ nodes[ns[1]].attrs = AttrsOf(v.props)
         /\ nodes[ns[1]].listeners = ListenersOf(v.props)
         /\ BuiltList(nodes[ns[1]].kids, v.children, 1)

BuiltList(ns, vs, k) ==
    IF k > Len(vs) THEN ns = <<>>
    ELSE /\ Len(ns) >= Width(vs[k])
         /\ Built(SubSeq(ns, 1, Width(vs[k])), vs[k])
         /\ BuiltList(SubSeq(ns, Width(vs[k]) + 1, Len(ns)), vs, k + 1)

\* The container held the markers of a fragment before the call
OverFragment == \E k \in 1..Len(last.kids) : IsMarker(World, last.kids[k], "fragment-start")

\* C11: render(description, container) over nothing, a foreign node, or what
\* an earlier render of an element, a text, a component or a root fragment
\* left completes without raising; every child the container had was passed
\* to unmountComponent and is detached, and the container's children are
\* exactly the materialization of the description.
C11_RenderReplaces ==
    last.op \in {"mount", "render"} =>
        /\ ~err
        /\ \A k \in 1..Len(last.kids) :
              /\ nodes[last.kids[k]].parent = NoNode
              /\ ( WalkedBy("unmountComponent", last.kids[k])
                   \/ \E j \in 1..(k - 1) :
                         /\ IsMarker(World, last.kids[j], "fragment-start")
                         /\ WalkedBy("unmountComponent", last.kids[j]) )
        /\ Built(nodes[Container].kids, last.b)

\* C11 holds of every render over a container that does not hold the markers
\* of a fragment.
C11_ExceptOverFragment == (~OverFragment) => C11_RenderReplaces

\* Node n is node m or below it
RECURSIVE Within(_, _)
Within(n, m) == n = m \/ (nodes[n].parent # NoNode /\ Within(nodes[n].parent, m))

\* unmountComponent(m) disposes node n: n is m or below it, or m is the start
\* marker of a fragment and n is one of the nodes up to the end marker, or
\* below one of them
Disposes(m, n) ==
    \/ Within(n, m)
    \/ /\ IsMarker(World, m, "fragment-start")
       /\ nodes[m].parent # NoNode
       /\ \E k \in 1..Len(MarkedRun(World, m)) : Within(n, MarkedRun(World, m)[k])

\* Node n, built from a description with a ref, is disposed by the step
DisposedWithRef(n) ==
    /\ nodes[n].vnode # NoVNode
    /\ PropHas(nodes[n].vnode.props, "ref")
    /\ \E k \in 1..Len(ev') :
          /\ ev'[k][1] = "unmountComponent"
          /\ ev'[k][2] \in 1..Len(nodes)
          /\ Disposes(ev'[k][2], n)

\* The step gives null to the ref of node n's description
RefNulled(n) ==
    \E k \in 1..Len(ev') : ev'[k] = <<PropGet(nodes[n].vnode.props, "ref"), NoNode>>

\* C12: whenever unmountComponent disposes a live node (render() clearing
\* the container, a child list that shrinks, a node between the markers of
\* a fragment) and the description that produced the node carries a ref,
\* the callback ref is called with null, or the ref object's current is set
\* to null, plain elements included.
C12_RefsSevered ==
    [][ \A n \in 1..Len(nodes) : DisposedWithRef(n) => RefNulled(n) ]_vars

\* C12 of the steps that end without an exception
C12_RefsSeveredWhenCompleted ==
    [][ ~err' => \A n \in 1..Len(nodes) : DisposedWithRef(n) => RefNulled(n) ]_vars

\* C12 of the nodes that are not between the markers of a fragment
C12_ExceptBetweenMarkers ==
    [][ \A n \in 1..Len(nodes) :
          ( /\ DisposedWithRef(n)
            /\ ~\E m \in 1..Len(nodes) :
                  /\ IsMarker(World, m, "fragment-start")
                  /\ nodes[m].parent = nodes[n].parent
                  /\ nodes[n].parent # NoNode )
          => RefNulled(n) ]_vars

-----------------------------------------------------------------------------
(* Calls on instances that are gone or detached (Spec)                     *)

\* C16: after componentWillUnmount has fired on an instance, a setState or
\* update() call on it is inert: render is not invoked, no live node changes,
\* nothing is built and componentDidUpdate does not fire.
C16_InertAfterUnmount ==
    [][ \A i \in 1..Len(inst) :
          (last'.op \in {"setState", "update"} /\ last'.i = i
           /\ inst[i].gWillUnmount >= 1)
          => /\ ~err'
             /\ nodes' = nodes
             /\ Len(inst') = Len(inst)
             /\ inst'[i].gDidUpdate = inst[i].gDidUpdate
             /\ ev' = <<>> ]_vars

\* setState({count: 1}) was called on a Counter whose componentWillUnmount
\* had fired: the state is merged and the instance was not rendered again
C16_Witness ==
    /\ last.op = "setState" /\ ~err
    /\ inst[last.i].cls = "Counter"
    /\ inst[last.i].gWillUnmount >= 1
    /\ inst[last.i].state.count = 1
    /\ ev = <<>>

\* update() is called, by the application or by setState, on instance i,
\* whose root live node has no parent (and which has no markers in a parent
\* instead)
DetachedUpdate(i) ==
    /\ last'.op \in {"update", "setState"} /\ last'.i = i
    /\ inst[i].autoUpdate
    /\ inst[i]._dom # NoNode
    /\ nodes[inst[i]._dom].parent = NoNode
    /\ inst[i]._startMarker = NoNode

\* The call changed no live node and no hook ran
Unnoticed ==
    /\ ~err'
    /\ nodes' = nodes
    /\ \A k \in 1..Len(ev') : ev'[k][1] = "render"

\* The saved previous state is what it was when update() was called: what
\* the instance held before, or what setState had just saved
SavedStateKept(i) ==
    IF last'.op = "update" THEN inst'[i]._prevState = inst[i]._prevState
    ELSE inst'[i]._prevState = (IF impl = "legacy" /\ inst[i]._prevState # NoState
                                THEN inst[i]._prevState ELSE inst[i].state)

\* C17: update() on an instance whose root live node has no parent is a
\* no-op: no live node changes, no notification fires, and the stored child
\* description and the saved previous state are what they were.
C17_DetachedUpdateNoOp ==
    [][ \A i \in 1..Len(inst) :
          DetachedUpdate(i) =>
             /\ Unnoticed
             /\ inst'[i]._childVNode = inst[i]._childVNode
             /\ SavedStateKept(i) ]_vars

\* The live nodes and the hooks are left alone by such a call
C17_DetachedUpdateUnnoticed ==
    [][ \A i \in 1..Len(inst) : DetachedUpdate(i) => Unnoticed ]_vars

\* The pre-reconciling implementation returns before it touches anything
C17_LegacyDetachedUpdateNoOp ==
    [][ \A i \in 1..Len(inst) :
          (impl = "legacy" /\ DetachedUpdate(i)) =>
             /\ Unnoticed
             /\ inst'[i]._childVNode = inst[i]._childVNode
             /\ SavedStateKept(i)
             /\ ev' = <<>> ]_vars

-----------------------------------------------------------------------------
(* Unkeyed lists (SpecDiff)                                                *)

Unkeyed(children) == \A j \in 1..Len(children) : ~HasKey(children[j])

\* Two lists of unkeyed children under a div of unchanged properties, the
\* first a prefix of the second and one shorter
OneMore(short, long) ==
    /\ last.op = "diff" /\ last.a.type = "div" /\ last.b.type = "div"
    /\ last.a.props = last.b.props
    /\ Unkeyed(short) /\ Unkeyed(long)
    /\ Len(long) = Len(short) + 1
    /\ short = SubSeq(long, 1, Len(short))

\* The nodes the first mount made: the root and one per (childless) child
MountedNodes == 2 + Len(OldChildren)

\* The parent's nodes show the new children, each child's node in its place
ShowsNew ==
    /\ Len(NewNodes) = Len(NewChildren)
    /\ \A j \in 1..Len(NewChildren) :
          nodes[NewNodes[j]].parent = last.dom /\ Shows(NewNodes[j], NewChildren[j])

\* No node but n was disposed of or had an attribute changed
OnlyTouched(n) == \A k \in 1..Len(ev) : ev[k][2] = n

\* C14: reconciling unkeyed children against the same list without its last
\* child disposes of and removes exactly the trailing node and keeps the other
\* nodes, the same objects in the same places; reconciling against the same
\* list with one more child creates and appends exactly one node and keeps
\* the existing ones.
C14_ShrinkGrow ==
    /\ OneMore(NewChildren, OldChildren) =>
          /\ ~err /\ last.ret = last.dom
          /\ NewNodes = SubSeq(OldNodes, 1, Len(NewChildren))
          /\ ShowsNew
          /\ Len(nodes) = MountedNodes
          /\ nodes[OldNodes[Len(OldNodes)]].parent = NoNode
          /\ WalkedBy("unmountComponent", OldNodes[Len(OldNodes)])
          /\ OnlyTouched(OldNodes[Len(OldNodes)])
    /\ OneMore(OldChildren, NewChildren) =>
          /\ ~err /\ last.ret = last.dom
          /\ Len(nodes) = MountedNodes + 1
          /\ NewNodes = Append(OldNodes, Len(nodes))
          /\ ShowsNew
          /\ OnlyTouched(Len(nodes))

\* ['x','y','z'] was reconciled against ['x','y']
C14_Witness ==
    /\ last.op = "diff" /\ ~err
    /\ OldChildren = <<VText("x"), VText("y"), VText("z")>>
    /\ NewChildren = <<VText("x"), VText("y")>>
    /\ Len(NewNodes) = 2

\* ['x','y'] was reconciled against ['x','y','z']
C14_WitnessGrow ==
    /\ last.op = "diff" /\ ~err
    /\ OldChildren = <<VText("x"), VText("y")>>
    /\ NewChildren = <<VText("x"), VText("y"), VText("z")>>
    /\ Len(NewNodes) = 3

-----------------------------------------------------------------------------
(* Properties of the hook workload (SpecHooks)                             *)

HookNames == {"componentDidMount", "componentWillUnmount", "componentDidUpdate"}

\* A hook of a Fragile instance ran, and so threw, during the step
HookThrew ==
    \E k \in 1..Len(ev') : ev'[k][1] \in HookNames /\ inst'[ev'[k][2]].cls = "Fragile"

\* The instance is mounted and its render output is in the document
Live(i) == inst[i]._isMounted /\ ~inst[i]._isUnmounted /\ Attached(i)

\* render() disposed of everything the container held: each live instance ran
\* its componentWillUnmount and each prior child left the container
DisposePassDone ==
    last'.op = "render" =>
        /\ \A i \in 1..Len(inst) : Live(i) => inst'[i].gWillUnmount = inst[i].gWillUnmount + 1
        /\ \A k \in 1..Len(last'.kids) : nodes'[last'.kids[k]].parent = NoNode

\* setState on a live Pair reconciled all of its output: the pair's own
\* componentDidUpdate, which follows the pass, ran
ReconcilePassDone ==
    (last'.op = "setState" /\ inst[last'.i].cls = "Pair" /\ Live(last'.i)) =>
        inst'[last'.i].gDidUpdate = inst[last'.i].gDidUpdate + 1

\* C13: an exception thrown by a lifecycle hook is caught where the hook is
\* invoked and does not abort the surrounding pass: no exception leaves the
\* call, a render still disposes of every prior child and fires the remaining
\* components' componentWillUnmount, and an update still reaches its end.
C13_HookContained ==
    [][ HookThrew => (~err' /\ DisposePassDone /\ ReconcilePassDone) ]_vars

\* No hook has thrown so far
NoneThrown ==
    \A i \in 1..Len(inst) :
        inst[i].cls = "Fragile" =>
            inst[i].gDidMount + inst[i].gWillUnmount + inst[i].gDidUpdate = 0

\* The same passes complete as long as no hook throws.
C13_WhenHooksReturn ==
    [][ (NoneThrown /\ ~HookThrew) => (~err' /\ DisposePassDone /\ ReconcilePassDone) ]_vars

\* The pre-reconciling implementation catches what componentDidMount throws.
C13_LegacyDidMountCaught ==
    [][ (impl = "legacy" /\ last'.op = "timer" /\ HookThrew) => ~err' ]_vars

-----------------------------------------------------------------------------
(* Round trips and handlers (SpecProps)                                    *)

\* The value of a description: its type, key, text, properties and children
\* without the fields the library writes on it.  A style mapping counts by
\* its entries when byContent holds and as the object it is otherwise.
RECURSIVE Canon(_, _)
Canon(v, byContent) ==
    IF v.type \in {"#none", "#text"} THEN [type |-> v.type, text |-> IF v.type = "#text" THEN v.text ELSE ""]
    ELSE [type |-> v.type, key |-> v.key,
          props |-> { <<pr[1], IF pr[1] = "style" /\ byContent THEN StyleText(pr[2])
                                ELSE pr[2]>> : pr \in v.props },
          children |-> [j \in 1..Len(v.children) |-> Canon(v.children[j], byContent)]]

\* The step changed no live node (the description a node refers back to set
\* aside), made none, changed no attribute and returned the node it was given
NothingDone ==
    /\ ~err'
    /\ last'.ret = last'.dom
    /\ Len(nodes') = Len(nodes)
    /\ \A n \in 1..Len(nodes) :
          [nodes'[n] EXCEPT !.vnode = NoVNode] = [nodes[n] EXCEPT !.vnode = NoVNode]
    /\ \A k \in 1..Len(ev') : ev'[k][1] # "mutate"

\* C15: reconciling a description against an identical copy of itself (equal
\* values, style mappings and nested descriptions being other objects with
\* the same entries) mutates no attribute, replaces no node and returns the
\* unchanged node.
C15_RoundTrip ==
    [][ (last'.op = "diff" /\ last'.a # NoVNode
         /\ Canon(last'.a, TRUE) = Canon(last'.b, TRUE)) => NothingDone ]_vars

\* The same when the copy's style mappings are the very objects of the original
C15_SameStyleObjects ==
    [][ (last'.op = "diff" /\ last'.a # NoVNode
         /\ Canon(last'.a, FALSE) = Canon(last'.b, FALSE)) => NothingDone ]_vars

-----------------------------------------------------------------------------
(* The factory (SpecH)                                                     *)

\* The description h returned has no key entry among its props, and the node
\* built from it has no key attribute
KeyStripped ==
    /\ ~PropHas(last.b.props, "key")
    /\ IsElement(World, last.dom) => ~PropHas(nodes[last.dom].attrs, "key")

\* C18: for every props bag that holds a key k, a string or a number, 0 and
\* the empty string included, the description h returns has key k and no key
\* entry among its props, and the key is not applied as an attribute.
C18_KeyKept ==
    last.op = "h" =>
        /\ ~err
        /\ last.b.key = PropGet(last.arg, "key")
        /\ KeyStripped

\* The same for the keys that are neither 0 nor the empty string
C18_TruthyKeyKept ==
    (last.op = "h" /\ KeyTruthy(PropGet(last.arg, "key"))) =>
        /\ ~err
        /\ last.b.key = PropGet(last.arg, "key")
        /\ KeyStripped

\* For 0 and the empty string the description has no key at all
C18_FalsyKeyLost ==
    (last.op = "h" /\ ~KeyTruthy(PropGet(last.arg, "key"))) =>
        (~err /\ last.b.key = NoKey /\ KeyStripped)

-----------------------------------------------------------------------------
(* The store (SpecStore)                                                   *)

\* What setState(updater) makes of a state: an object's entries over the
\* state's, or what the function returns
Replaced(state, updater) ==
    IF IsUpdaterFunction(updater) THEN CallUpdater(updater, state)
    ELSE [k \in (DOMAIN state) \cup (DOMAIN updater) |->
             IF k \in DOMAIN updater THEN updater[k] ELSE state[k]]

\* How often the listener was called in the last setState
TimesCalled(st, listener) ==
    Cardinality({ k \in 1..Len(st.calls) : st.calls[k][1] = listener })

Subscribed(st) == SeqToSet(st.listeners)

\* C19: setState(updater) replaces the state (an object merged shallowly, a
\* function's return value as it is), then calls every subscribed listener
\* exactly once with the new and the old state, whether or not a listener
\* throws; a listener whose unsubscribe handle was called is not subscribed
\* and is not called until it is subscribed again; subscribe with something
\* that is not a function raises and leaves the listeners as they were.
C19_StoreContract ==
    [][ /\ last'.op = "store.setState" =>
              /\ ~err'
              /\ store'.state = Replaced(store.state, store'.arg)
              /\ \A l \in StoreListeners :
                    TimesCalled(store', l) = IF l \in Subscribed(store) THEN 1 ELSE 0
              /\ \A k \in 1..Len(store'.calls) :
                    /\ store'.calls[k][2] = store'.state
                    /\ store'.calls[k][3] = store.state
        /\ last'.op = "store.unsubscribe" =>
              /\ ~err'
              /\ store'.arg \notin Subscribed(store')
              /\ store'.state = store.state /\ store'.calls = <<>>
        /\ last'.op = "store.subscribe" =>
              /\ store'.state = store.state /\ store'.calls = <<>>
              /\ IF store'.arg \in StoreListeners
                 THEN ~err' /\ Subscribed(store') = Subscribed(store) \cup {store'.arg}
                 ELSE err' /\ store'.listeners = store.listeners
        /\ \A l \in Subscribed(store') \ Subscribed(store) :
              last'.op = "store.subscribe" /\ store'.arg = l ]_vars

\* A setState called the throwing listener and then a listener subscribed
\* after it, while a listener that was unsubscribed before was not called
C19_Witness ==
    /\ last.op = "store.setState"
    /\ Len(store.calls) = 2
    /\ store.calls[1][1] = "#boom" /\ store.calls[2][1] = "#l1"
    /\ "#l2" \in store.handles
    /\ store.state = [a |-> 0, b |-> 1]

-----------------------------------------------------------------------------
(* Event handlers (SpecHandlers)                                           *)

\* What the component describes now, and the element that shows it
CurrentView == ClassRender("EventTest", {}, inst[1].state)
ViewRoot == nodes[Container].kids[1]

\* Element n and its children listen with exactly the handlers of
\* description v and of its children
RECURSIVE Listening(_, _)
Listening(n, v) ==
    IF v.type = "#text" THEN TRUE
    ELSE /\ nodes[n].kind = "elem"
         /\ nodes[n].listeners = ListenersOf(v.props)
         /\ Len(nodes[n].kids) = Len(v.children)
         /\ \A k \in 1..Len(v.children) : Listening(nodes[n].kids[k], v.children[k])

\* The handlers the current description gives element m for the event type
HandlersNow(m, type) ==
    LET v == IF m = ViewRoot THEN CurrentView ELSE CurrentView.children[1]
    IN { l[2] : l \in { x \in ListenersOf(v.props) : x[1] = type } }

\* How often the last dispatch called handler f on element m
TimesInvoked(f, m) == Cardinality({ k \in 1..Len(ev) : ev[k] = <<f, m>> })

\* Element m is the event's target or an ancestor of it
RECURSIVE OnPath(_, _)
OnPath(m, n) == n # NoNode /\ (m = n \/ OnPath(m, nodes[n].parent))

\* C20: after any sequence of updates each element listens, for each on*
\* property, with exactly the handler of the current description; an event
\* calls that handler exactly once on each element it passes, and calls no
\* handler of an earlier description and none where the property is absent.
C20_CurrentHandlers ==
    (inst # <<>> /\ last.op \in {"render", "setState", "dispatch", "timer"}) =>
        /\ ~err
        /\ Listening(ViewRoot, CurrentView)
        /\ last.op = "dispatch" =>
              \A m \in 2..Len(nodes) : \A f \in Handlers :
                  TimesInvoked(f, m) =
                      IF OnPath(m, last.dom) /\ m # Container
                         /\ f \in HandlersNow(m, last.arg)
                      THEN 1 ELSE 0

\* The onClick handler was f, an update made it g, and a click on the button
\* called g once and nothing else
C20_Witness ==
    /\ last.op = "dispatch" /\ last.arg = "click" /\ last.dom = ViewRoot
    /\ inst[1].gDidUpdate >= 1
    /\ inst[1].state.click = "#g"
    /\ ev = << <<"#g", ViewRoot>> >>

\* The onClick property was dropped by an update, and a click called nothing
C20_WitnessDropped ==
    /\ last.op = "dispatch" /\ last.arg = "click" /\ last.dom = ViewRoot
    /\ inst[1].gDidUpdate >= 1
    /\ inst[1].state.click = "none"
    /\ ev = <<>>

-----------------------------------------------------------------------------
(* Refs of built elements (SpecRefs)                                       *)

\* How often the last call gave the ref an element, and the elements it gave
TimesBound(ref) ==
    Cardinality({ k \in 1..Len(ev) : ev[k][1] = ref /\ ev[k][2] # NoNode })

BoundTo(ref) == { ev[k][2] : k \in { j \in 1..Len(ev) : ev[j][1] = ref /\ ev[j][2] # NoNode } }

\* What the ref holds after the call: the last thing it was given
RefCurrent(ref) ==
    LET given == { k \in 1..Len(ev) : ev[k][1] = ref }
    IN IF given = {} THEN NoNode
       ELSE ev[CHOOSE k \in given : \A j \in given : j <= k][2]

RenderedWithRef == last.op = "render" /\ last.a # NoVNode /\ PropHas(last.a.props, "ref")

\* C21: rendering an element whose props carry a ref binds it exactly once:
\* a callback is invoked one time, with the created element, the container's
\* first child; an object ref's current is that element.
C21_RefBoundOnce ==
    RenderedWithRef =>
        LET ref == PropGet(last.a.props, "ref") IN
        /\ ~err
        /\ last.dom = nodes[Container].kids[1]
        /\ IF IsFunction(ref)
           THEN TimesBound(ref) = 1 /\ BoundTo(ref) = {last.dom}
           ELSE RefCurrent(ref) = last.dom

\* The same for the reconciling implementation alone
C21_ReconRefBoundOnce ==
    (impl = "recon" /\ RenderedWithRef) =>
        LET ref == PropGet(last.a.props, "ref") IN
        /\ ~err
        /\ IF IsFunction(ref)
           THEN TimesBound(ref) = 1 /\ BoundTo(ref) = {last.dom}
           ELSE RefCurrent(ref) = last.dom

\* The pre-reconciling implementation gives the ref the created element, and
\* nothing else, and an object ref holds it
C21_LegacyRefBound ==
    (impl = "legacy" /\ RenderedWithRef) =>
        LET ref == PropGet(last.a.props, "ref") IN
        /\ ~err
        /\ BoundTo(ref) = {last.dom}
        /\ RefCurrent(ref) = last.dom

-----------------------------------------------------------------------------
(* Debounced updates (SpecDebounce)                                        *)

Debouncing(i) == inst[i].updateDebounceDelay \notin {"undefined", "0"}

Rendered(i) == \E k \in 1..Len(ev) : ev[k] = <<"render", i>>

\* C22: with updateDebounceDelay greater than 0, a setState or update()
\* call does not re-render the component before it returns: the render is
\* left to a timer.
C22_DebouncedNotSynchronous ==
    (last.op \in {"setState", "update"} /\ Debouncing(last.i))
        => (~Rendered(last.i) /\ ~EvHas("componentDidUpdate", last.i))

\* With a delay of 0, or with the field never set, a setState call on a
\* mounted component whose nodes are in the document has re-rendered it
\* when it returns.
C22_UndebouncedSynchronous ==
    (last.op = "setState" /\ ~Debouncing(last.i) /\ ~err
     /\ inst[last.i]._isMounted /\ ~inst[last.i]._isUnmounted /\ Attached(last.i))
        => Rendered(last.i)

\* No call leaves a timer behind that would update a component later: the
\* only timers are those of the deferred mounts.
C22_NoUpdateTimer ==
    \A k \in 1..Len(timers) : timers[k].kind \in {"didMount", "mountQueue"}

\* The Component constructors leave updateDebounceDelay unset.
C22_DefaultUnset ==
    \A i \in 1..Len(inst) :
        inst[i].cls \notin DebounceClasses => inst[i].updateDebounceDelay = "undefined"

-----------------------------------------------------------------------------
(* Component children whose output changes kind (SpecTree)                 *)

\* The root description is a component in both descriptions, and its output
\* changes kind.
RootKindChanged ==
    /\ last.op = "diff" /\ ~err
    /\ last.a.type = "Shape" /\ last.b.type = "Shape"
    /\ PropGet(last.a.props, "as") # PropGet(last.b.props, "as")

\* Child k of the root element is a component in both descriptions, and
\* its output changes kind.
ChildKindChanged(k) ==
    /\ last.op = "diff" /\ ~err
    /\ last.a.type = "div" /\ last.b.type = "div"
    /\ k \in 1..Len(last.a.children) /\ k \in 1..Len(last.b.children)
    /\ last.a.children[k].type = "Shape" /\ last.b.children[k].type = "Shape"
    /\ PropGet(last.a.children[k].props, "as") # PropGet(last.b.children[k].props, "as")

\* C23: when the re-render of a component matched by diff changes the kind
\* of its output, so that its root node is replaced, afterwards the
\* instance's _dom is the new node, diff has returned the new node, and the
\* parent's child list holds the new node at the child's position and not
\* the old node.
C23_RootFollowsKindChange ==
    /\ RootKindChanged =>
          LET new == childAt(World, Container, 0) IN
          /\ new # last.dom
          /\ nodes[new].data = PropGet(last.b.props, "as")
          /\ last.ret = new
          /\ inst[last.a._instance]._dom = new
          /\ nodes[Container].kids = <<new>>
    /\ \A k \in 1..MaxKids : ChildKindChanged(k) =>
          LET new == nodes[last.dom].kids[k] IN
          /\ Len(nodes[last.dom].kids) = Len(last.b.children)
          /\ new # last.kids[k]
          /\ nodes[new].data = PropGet(last.b.children[k].props, "as")
          /\ inst[last.a.children[k]._instance]._dom = new
          /\ \A j \in 1..Len(nodes[last.dom].kids) :
                 nodes[last.dom].kids[j] # last.kids[k]

\* What the code does establish: the old root node is replaced in the
\* document by a node of the new kind.
C23_NewNodeInPlace ==
    /\ RootKindChanged =>
          LET new == childAt(World, Container, 0) IN
          /\ new # last.dom
          /\ nodes[new].data = PropGet(last.b.props, "as")
          /\ nodes[Container].kids = <<new>>
    /\ \A k \in 1..MaxKids : ChildKindChanged(k) =>
          \E j \in 1..Len(nodes[last.dom].kids) :
             /\ nodes[last.dom].kids[j] \notin SeqToSet(last.kids)
             /\ nodes[nodes[last.dom].kids[j]].data
                   = PropGet(last.b.children[k].props, "as")

\* The instance keeps the node it was mounted with, and diff returns it.
C23_StaleRoot ==
    RootKindChanged =>
        /\ last.ret = last.dom
        /\ inst[last.a._instance]._dom = last.dom

-----------------------------------------------------------------------------
(* Keyed children of a fragment (SpecTree)                                 *)

\* A fragment was reconciled with a fragment, as the root or as the only
\* child of the root div.
FragmentRootPatched ==
    last.op = "diff" /\ ~err /\ last.a.type = Fragment /\ last.b.type = Fragment

FragmentChildPatched ==
    /\ last.op = "diff" /\ ~err /\ last.a.type = "div" /\ last.b.type = "div"
    /\ Len(last.a.children) = 1 /\ Len(last.b.children) = 1
    /\ last.a.children[1].type = Fragment /\ last.b.children[1].type = Fragment

\* The position (one-based) of the child with that key in a list (0: none)
KeyAt(children, key) ==
    LET hits == { j \in 1..Len(children) : children[j].key = key }
    IN IF hits = {} THEN 0 ELSE CHOOSE j \in hits : TRUE

\* C24: when a fragment with intact markers is reconciled with a fragment,
\* a keyed child keeps its live node, also when its position inside the
\* fragment changes, and diff returns the start marker.
C24_FragmentKeyedNodesKept ==
    /\ FragmentRootPatched => last.ret = last.dom
    /\ FragmentChildPatched =>
          \A key \in FragmentKeys :
             LET i == KeyAt(last.a.children[1].children, key)
                 j == KeyAt(last.b.children[1].children, key)
             IN (i # 0 /\ j # 0) =>
                   /\ j + 1 <= Len(nodes[last.dom].kids)
                   /\ nodes[last.dom].kids[j + 1] = last.kids[i + 1]

\* What the code does establish: diff returns the start marker, the
\* markers stay, and the nodes between them stay where they are: the node
\* at each position that both lists fill is the node that was there, given
\* the attributes of the new child at that position.
C24_FragmentPositional ==
    /\ FragmentRootPatched => last.ret = last.dom
    /\ FragmentChildPatched =>
          LET old == last.a.children[1].children
              new == last.b.children[1].children
              kids == nodes[last.dom].kids
          IN /\ Len(kids) = Len(new) + 2
             /\ kids[1] = last.kids[1]
             /\ IsMarker(World, kids[Len(kids)], "fragment-end")
             /\ \A j \in 1..Len(new) :
                   /\ j <= Len(old) => kids[j + 1] = last.kids[j + 1]
                   /\ nodes[kids[j + 1]].attrs = {<<"id", new[j].key>>}

-----------------------------------------------------------------------------
(* New siblings that share a key (SpecTree)                                *)

UniqueKeys(children) ==
    \A i, j \in 1..Len(children) : i # j => children[i].key # children[j].key

\* The keyed list last.a, with unique keys, was reconciled with a list in
\* which the new children p and q (p before q) share a key of the old list.
SharedKey(p, q) ==
    /\ last.op = "diff" /\ last.a.type = "ul" /\ last.b.type = "ul"
    /\ UniqueKeys(last.a.children)
    /\ p < q /\ q <= Len(last.b.children)
    /\ last.b.children[p].key = last.b.children[q].key
    /\ KeyAt(last.a.children, last.b.children[q].key) # 0

\* C25: when two new siblings share a key of the old list, the later one is
\* paired with the old node and the earlier one gets a fresh node; no error
\* is raised and the parent ends with one live child per new child.
C25_SharedKeyTolerated ==
    \A p, q \in 1..MaxLen : SharedKey(p, q) =>
        /\ ~err
        /\ Len(nodes[last.dom].kids) = Len(last.b.children)
        /\ ( (\A r \in 1..Len(last.b.children) :
                  r \notin {p, q} => last.b.children[r].key # last.b.children[q].key)
              => /\ nodes[last.dom].kids[p] \notin SeqToSet(last.kids)
                 /\ last.b.children[q].type
                      = last.a.children[KeyAt(last.a.children, last.b.children[q].key)].type
                    => nodes[last.dom].kids[q]
                         = last.kids[KeyAt(last.a.children, last.b.children[q].key)] )

\* What the code does: every new child with the key is paired with the old
\* node.  Unless the earlier one is of another type than the old child and
\* the later one of the same type, either the call raises an error or the
\* parent ends with fewer live children than new children.
C25_SharedKeyCollides ==
    \A p, q \in 1..MaxLen : SharedKey(p, q) =>
        LET old == last.a.children[KeyAt(last.a.children, last.b.children[q].key)]
        IN (last.b.children[p].type = old.type \/ last.b.children[q].type # old.type)
              => (err \/ Len(nodes[last.dom].kids) < Len(last.b.children))

-----------------------------------------------------------------------------
(* The back-reference of a component's root node after update() (Spec)     *)

\* The last call was a setState or update() on an instance whose
\* componentDidMount had run, and it rendered the instance and ran to its
\* componentDidUpdate.
UpdateCompleted ==
    /\ last.op \in {"setState", "update"} /\ ~err
    /\ inst[last.i].gDidMount > 0
    /\ Rendered(last.i)
    /\ EvHas("componentDidUpdate", last.i)

\* instance._dom is an element that carries the back-reference to the
\* instance, or is no element.
RootTagged(i) ==
    (IsNode(World, inst[i]._dom) /\ IsElement(World, inst[i]._dom))
        => nodes[inst[i]._dom].pico = i

\* C26: after every completed update() of a mounted instance the
\* instance's root node, when it is an element, carries the back-reference
\* to the instance.
C26_RootTaggedAfterUpdate == UpdateCompleted => RootTagged(last.i)

\* The same for the pre-reconciling implementation alone, which tags the
\* root again at the end of update()
C26_LegacyRootTagged ==
    (impl = "legacy" /\ UpdateCompleted) => RootTagged(last.i)

\* In the reconciling implementation the tag is there after an update that
\* kept the kind of the root node, unless the component's root node is also
\* the root node of the component that rendered it (Wrap renders Counter):
\* that node carries the outer instance.
C26_ReconTaggedWhenKindKept ==
    (impl = "recon" /\ UpdateCompleted
     /\ inst[last.i].cls \in {"Counter", "Early", "Parent"}
     /\ \A j \in 1..Len(inst) : inst[j].cls # "Wrap")
        => RootTagged(last.i)

-----------------------------------------------------------------------------
(* Refs below a node that diff replaces (SpecProps)                        *)

\* The refs of a description and of the descriptions below it
RECURSIVE RefsIn(_)
RefsIn(v) ==
    IF v = NoVNode THEN {}
    ELSE (IF PropHas(v.props, "ref") THEN {PropGet(v.props, "ref")} ELSE {})
         \cup UNION { RefsIn(v.children[k]) : k \in 1..Len(v.children) }

RefsBelow(v) == UNION { RefsIn(v.children[k]) : k \in 1..Len(v.children) }

\* The element last.dom was replaced because the new description is of
\* another kind.
KindReplaced ==
    /\ last.op = "diff" /\ ~err
    /\ last.a # NoVNode /\ last.b # NoVNode
    /\ last.a.type = "div" /\ last.b.type # "div"
    /\ ~isConnected(World, last.dom)

\* C27: when diff replaces a live subtree because the kind changed, every
\* ref of a descendant of the old subtree is severed: a callback ref is
\* called with null and an object ref's current is set to null.
C27_DescendantRefsSevered ==
    KindReplaced => \A ref \in RefsBelow(last.a) : EvHas(ref, NoNode)

\* What the code does: the replacement gives null to no ref at all.
C27_NoRefSevered ==
    KindReplaced =>
        \A ref \in RefCallbacks \cup RefObjects : ~EvHas(ref, NoNode)

-----------------------------------------------------------------------------
(* The live tree after diff against a fresh build (SpecTree)               *)

MixedPatched == last.op = "diff" /\ last.a.type = "ol" /\ last.b.type = "ol"

-----------------------------------------------------------------------------
(* A component whose render() returns a fragment (Spec)                    *)

\* The last call was a setState on a Group that was rendered into the
\* container, whose componentDidMount has run and whose markers are the
\* container's first and last child.
FragmentRootSetState ==
    /\ last.op = "setState" /\ ~err
    /\ inst[last.i].cls = "Group"
    /\ inst[last.i].gDidMount > 0 /\ ~inst[last.i]._isUnmounted
    /\ Len(nodes[Container].kids) >= 2
    /\ nodes[nodes[Container].kids[1]].kind = "comment"
    /\ nodes[nodes[Container].kids[Len(nodes[Container].kids)]].kind = "comment"
    /\ \A j \in 1..Len(inst) : (j # last.i /\ inst[j].cls = "Group") => inst[j]._isUnmounted

\* The nodes between the container's markers are what Group renders for
\* its state: one p with the count as its text.
BetweenMarkersShows(i) ==
    /\ Len(nodes[Container].kids) = 3
    /\ Shows(nodes[Container].kids[2],
             h("p", {}, <<VText(ToStr(inst[i].state.count))>>))

\* C29: a setState on a mounted component whose render() returns a fragment
\* patches the nodes between the markers to match the new output and runs
\* componentDidUpdate.
C29_FragmentRootUpdates ==
    (impl = "recon" /\ FragmentRootSetState) =>
        /\ BetweenMarkersShows(last.i)
        /\ EvHas("componentDidUpdate", last.i)

\* What the reconciling implementation does: render() runs, nothing else
\* happens.
C29_FragmentRootInert ==
    (impl = "recon" /\ FragmentRootSetState) =>
        /\ ev = <<<<"render", last.i>>>>
        /\ inst[last.i].gDidUpdate = 0
        /\ Shows(nodes[Container].kids[2], h("p", {}, <<VText("0")>>))

\* The pre-reconciling implementation does what the claim says, unless the
\* application has turned autoUpdate off.
C29_LegacyFragmentRootUpdates ==
    (impl = "legacy" /\ FragmentRootSetState /\ inst[last.i].autoUpdate) =>
        /\ BetweenMarkersShows(last.i)
        /\ EvHas("componentDidUpdate", last.i)

-----------------------------------------------------------------------------
(* componentDidUpdate and componentDidMount (Spec)                         *)

\* C30: componentDidUpdate is never invoked on an instance before its
\* componentDidMount, whatever the order of render(), setState, update()
\* and the deferred mount timers.
C30_DidUpdateAfterDidMount ==
    \A i \in 1..Len(inst) : inst[i].gDidUpdate > 0 => inst[i].gDidMount > 0

\* The pre-reconciling implementation keeps the order: update() returns
\* early while _isMounted is false.
C30_LegacyDidUpdateAfterDidMount ==
    impl = "legacy" => C30_DidUpdateAfterDidMount

-----------------------------------------------------------------------------
(* Two instances on one root node (Spec)                                   *)

\* Instance i rendered the description of instance j, so that the two have
\* one root node, and that node has been disposed of and taken out of the
\* document.
SharedRootDisposed(i, j) ==
    /\ impl = "recon" /\ ~err
    /\ inst[i].cls = "Wrap" /\ inst[j].cls = "Counter"
    /\ IsNode(World, inst[i]._dom) /\ inst[i]._dom = inst[j]._dom
    /\ nodes[inst[i]._dom].parent = NoNode

\* C31: when two instances share one root node, disposing of that node
\* fires componentWillUnmount exactly once on each of them and flags both
\* as unmounted, and the componentDidMount of neither runs afterwards.
C31_BothUnmounted ==
    \A i, j \in 1..Len(inst) : SharedRootDisposed(i, j) =>
        /\ inst[i].gWillUnmount = 1 /\ inst[i]._isUnmounted
        /\ inst[j].gWillUnmount = 1 /\ inst[j]._isUnmounted
        /\ ~(last.op = "timer" /\ EvHas("componentDidMount", i))
        /\ ~(last.op = "timer" /\ EvHas("componentDidMount", j))

\* What the code does: the node carries the outer instance alone, which
\* is unmounted once; the inner instance is never told and never flagged.
C31_OuterOnly ==
    \A i, j \in 1..Len(inst) : SharedRootDisposed(i, j) =>
        /\ inst[i].gWillUnmount = 1 /\ inst[i]._isUnmounted
        /\ ~(last.op = "timer" /\ EvHas("componentDidMount", i))
        /\ inst[j].gWillUnmount = 0 /\ ~inst[j]._isUnmounted

-----------------------------------------------------------------------------
(* Old children that follow a fragment (SpecTree)                          *)

\* The children of a section were reconciled with a list that has the same
\* kinds at the same positions; child k is a span and an earlier child is a
\* fragment.
AfterFragment(k) ==
    /\ last.op = "diff" /\ last.a.type = "section" /\ last.b.type = "section"
    /\ Len(last.a.children) = Len(last.b.children)
    /\ \A j \in 1..Len(last.a.children) :
          last.a.children[j].type = last.b.children[j].type
    /\ k \in 2..Len(last.a.children)
    /\ last.a.children[k].type = "span"
    /\ \E j \in 1..(k - 1) : last.a.children[j].type = Fragment

\* The live node the old child k was built as: the one after the nodes of
\* the children before it
OwnNode(k) == last.kids[WidthSum(SubSeq(last.a.children, 1, k - 1), 1) + 1]

\* C32: diffChildren reconciles an old child with the live node that child
\* produced: a span that follows a fragment is patched in its own node,
\* which stays in the parent and shows the new child, and no node of the
\* fragment is given the span's attributes.
C32_OwnNodePaired ==
    \A k \in 1..MaxKids : AfterFragment(k) =>
        /\ ~err
        /\ nodes[OwnNode(k)].parent = last.dom
        /\ Shows(OwnNode(k), last.b.children[k])
        /\ \A j \in 1..Len(last.kids) :
              nodes[last.kids[j]].data # "span" => nodes[last.kids[j]].attrs = {}

\* What the code does: old child k is paired with the k-th live node of
\* the parent, a node of the fragment; the span's own node is left showing
\* the old child.
C32_PairedByIndex ==
    \A k \in 1..MaxKids : AfterFragment(k) =>
        /\ OwnNode(k) # last.kids[k]
        /\ Shows(OwnNode(k), last.a.children[k])

-----------------------------------------------------------------------------
(* A keyed component replaced by a tag (SpecBoard)                         *)

\* Counter j, whose componentDidMount ran while its root node was in the
\* document, has that node out of the document now: a render() cleared the container, or the Board that
\* rendered it under the key n1 now renders a span under that key and diff
\* replaced the node.
KeyedInstanceGone(j) ==
    /\ ~err
    /\ inst[j].cls = "Counter"
    /\ inst[j].gDidMount > 0 /\ inst[j].gTimer = "attached"
    /\ IsNode(World, inst[j]._dom) /\ nodes[inst[j]._dom].parent = NoNode

\* C33: when diffChildren pairs an old and a new child by key and their
\* kinds differ, the mounted instance whose root is the replaced node gets
\* componentWillUnmount exactly once and is flagged unmounted.
C33_ReplacedInstanceUnmounted ==
    \A j \in 1..Len(inst) : KeyedInstanceGone(j) =>
        inst[j].gWillUnmount = 1 /\ inst[j]._isUnmounted

\* What the code does: the update of a Board calls no componentWillUnmount
\* at all; a Counter gets it only when render() clears the container while
\* its node is there.
C33_NoUnmountOnReplace ==
    \A j \in 1..Len(inst) :
        EvHas("componentWillUnmount", j) => last.op = "render"

-----------------------------------------------------------------------------
(* A fragment replaced by another kind, and the reverse (SpecTree)         *)

\* The container's first position held a fragment and was reconciled with
\* a span.
FragmentToTag ==
    /\ last.op = "diff"
    /\ last.a.type = Fragment /\ last.b.type = "span"
    /\ IsNode(World, last.a._startMarker) /\ IsNode(World, last.a._endMarker)

\* The container's first position held a span and was reconciled with a
\* fragment.
TagToFragment ==
    last.op = "diff" /\ last.a.type = "span" /\ last.b.type = Fragment

\* C34: when a fragment is replaced by a description of another kind, its
\* start marker, the nodes between the markers and its end marker all
\* leave the parent; in this direction and in the reverse, diff returns a
\* live node that is attached to the parent.
C34_FragmentReplacedWhole ==
    /\ FragmentToTag =>
          /\ ~err
          /\ nodes[last.a._startMarker].parent = NoNode
          /\ nodes[last.a._endMarker].parent = NoNode
          /\ nodes[Container].kids = <<last.ret>>
          /\ Shows(last.ret, last.b)
    /\ TagToFragment =>
          /\ ~err
          /\ nodes[last.dom].parent = NoNode
          /\ IsNode(World, last.ret) /\ nodes[last.ret].parent = Container

\* What the code does for a fragment replaced by a span: the span takes
\* the place of the start marker alone; the end marker stays in the
\* parent, with the nodes that were before it.
C34_OnlyStartMarkerReplaced ==
    FragmentToTag =>
        /\ ~err
        /\ nodes[last.a._startMarker].parent = NoNode
        /\ nodes[last.a._endMarker].parent = Container
        /\ Len(nodes[Container].kids) = Width(last.a)
        /\ nodes[Container].kids[1] = last.ret /\ Shows(last.ret, last.b)

\* What the code does for a span replaced by a fragment: the fragment's
\* nodes take the span's place, and diff returns the emptied
\* DocumentFragment, which has no parent.
C34_ReturnsDocumentFragment ==
    TagToFragment =>
        /\ ~err
        /\ nodes[last.dom].parent = NoNode
        /\ IsDocFrag(World, last.ret) /\ nodes[last.ret].parent = NoNode
        /\ Len(nodes[Container].kids) = Width(last.b)

-----------------------------------------------------------------------------
(* A fragment inside a fragment (SpecTree)                                 *)

\* A fragment whose first child is a fragment
Nested(v) ==
    v # NoVNode /\ v.type = Fragment /\ Len(v.children) = 2
    /\ v.children[1].type = Fragment

\* A nested fragment at the container's first position was reconciled with
\* a nested fragment.
NestedPatched == last.op = "diff" /\ Nested(last.a) /\ Nested(last.b)

\* A section whose only child was a nested fragment was reconciled with a
\* section without children: the fragment is disposed of.
NestedDisposed ==
    /\ last.op = "diff" /\ last.a.type = "section" /\ last.b.type = "section"
    /\ Len(last.a.children) = 1 /\ Nested(last.a.children[1])
    /\ last.b.children = <<>>

\* C35: the reconciler and the disposal take the extent of a fragment that
\* holds a fragment up to its own end marker: reconciling it patches all
\* of its children, the one after the inner fragment included, and
\* disposing of it removes all of its nodes.
C35_OuterExtent ==
    /\ NestedPatched =>
          /\ ~err
          /\ last.ret = last.dom
          /\ Built(nodes[Container].kids, last.b)
    /\ NestedDisposed =>
          /\ ~err
          /\ nodes[last.dom].kids = <<>>
          /\ \A k \in 1..Len(last.kids) : nodes[last.kids[k]].parent = NoNode

\* What the code does: the extent ends at the first end marker, the inner
\* fragment's.  Disposal leaves the child after the inner fragment and the
\* outer end marker in the parent; reconciliation leaves that child as it
\* was.
C35_FirstEndMarker ==
    /\ NestedDisposed =>
          /\ ~err
          /\ nodes[last.dom].kids = SubSeq(last.kids, Len(last.kids) - 1, Len(last.kids))
    /\ NestedPatched =>
          /\ ~err
          /\ Len(nodes[Container].kids) = Width(last.a)
          /\ nodes[nodes[Container].kids[Width(last.a) - 1]].data = "i"
          /\ nodes[nodes[Container].kids[Width(last.a) - 1]].attrs
                = AttrsOf(last.a.children[2].props)

-----------------------------------------------------------------------------
(* _prevState when no update runs between setState calls                   *)

\* The workload: instances are created by render(), autoUpdate is switched
\* off, setState is called.
ManualInputs == { h("Counter", {}, <<>>), h("Early", {}, <<>>), NoVNode }

\* PicoJSX.render(vnode, container)
RenderManual ==
    /\ budget.renders > 0
    /\ \E vnode \in ManualInputs :
          Commit(IF impl = "recon" THEN render(World, vnode, Container)
                 ELSE legacyRender(World, vnode, Container),
                 Call("render", NoInst, vnode, NoVNode, NoNode, NoNode))
    /\ budget' = [budget EXCEPT !.renders = @ - 1]
    /\ UNCHANGED impl

NextManual == RenderManual \/ SetState \/ Manual \/ Timer

SpecManual == Init /\ [][NextManual]_vars

\* setState on instance i will not be followed by a run of update(): the
\* legacy implementation does not call it with autoUpdate = false; the
\* reconciling implementation has no such flag and always calls it, and
\* update() returns at its first guard for an instance that has no live
\* node or is unmounted.
NoUpdateRuns(i) ==
    IF impl = "legacy"
    THEN ~inst[i].autoUpdate
    ELSE inst[i]._dom = NoNode \/ inst[i]._isUnmounted

\* The application's setState call on instance i, with no update run
SetStateNoUpdate(i) ==
    /\ last'.op = "setState" /\ last'.i = i
    /\ i \in 1..Len(inst)
    /\ NoUpdateRuns(i)

\* C36: when no update runs between the calls, after each setState call
\* _prevState is a copy of the state as it was immediately before that
\* call.
C36_PrevStateBeforeCall ==
    [][\A i \in 1..Len(inst) :
          SetStateNoUpdate(i) => inst'[i]._prevState = inst[i].state]_vars

\* Two calls of setState in a row on an instance with autoUpdate = false
SecondCall(i) ==
    /\ last.op = "setState" /\ last.i = i
    /\ SetStateNoUpdate(i)

\* The second of two such calls leaves the state before the first call in
\* _prevState in the legacy implementation.
C36_LegacySecondCall ==
    [][\A i \in 1..Len(inst) :
          (impl = "legacy" /\ SecondCall(i))
             => inst'[i]._prevState = inst[i]._prevState]_vars

\* The reconciling implementation overwrites _prevState on every call.
C36_ReconPrevStateBeforeCall ==
    [][\A i \in 1..Len(inst) :
          (impl = "recon" /\ SetStateNoUpdate(i))
             => inst'[i]._prevState = inst[i].state]_vars

\* The legacy implementation keeps a _prevState that is already set: it is
\* the state before the first call since the last update.
C36_LegacyKeepsFirst ==
    [][\A i \in 1..Len(inst) :
          (impl = "legacy" /\ SetStateNoUpdate(i))
             => inst'[i]._prevState =
                  IF inst[i]._prevState # NoState THEN inst[i]._prevState
                  ELSE inst[i].state]_vars

-----------------------------------------------------------------------------
(* The router workload (SpecRouter): the application registers routes and  *)
(* a route-change handler and navigates; the browser changes the location  *)
(* and fires popstate.                                                     *)

RouterStep(op, r) ==
    /\ router' = r
    /\ err' = r.thrown
    /\ last' = Call(op, NoInst, NoVNode, NoVNode, NoNode, NoNode)
    /\ UNCHANGED <<impl, nodes, inst, timers, ev, budget, store>>

\* router.route(path, component)
RegisterRoute ==
    \E path \in RoutePaths : \E component \in RouteComponents :
        /\ RouteIndex(router, path) # 0 \/ Len(router.routes) < MaxRoutes
        /\ RouterStep("router.route", route(EnteredRouter(router), path, component))

\* router.setRouteChangeHandler(handler)
SetRouteChangeHandler ==
    /\ ~router.onRouteChange
    /\ RouterStep("router.setRouteChangeHandler",
                  [EnteredRouter(router) EXCEPT !.onRouteChange = TRUE])

\* router.navigate(path)
Navigate ==
    \E path \in Paths :
        RouterStep("router.navigate",
                   navigate([EnteredRouter(router) EXCEPT !.entry = path], path, 0))

\* The browser moves to another history entry and fires popstate: the
\* listener of the constructor calls handleRoute().
Popstate ==
    \E path \in Paths :
        RouterStep("router.handleRoute",
                   handleRoute([EnteredRouter(router) EXCEPT !.entry = path,
                                                            !.pathname = path], 1))

NextRouter == RegisterRoute \/ SetRouteChangeHandler \/ Navigate \/ Popstate

SpecRouter == Init /\ [][NextRouter]_vars

\* handleRoute ran in the last call
Routed == last.op \in {"router.navigate", "router.handleRoute"}

\* The path handleRoute found at the start matched no route
Unknown == matchRoute(router, router.entry) = NoRoute

\* C37: handleRoute terminates for every path and every route table; for a
\* path that matches no route it redirects to "/", and the route-change
\* handler is invoked at most once for the call.
C37_HandleRouteTerminates ==
    Routed =>
        /\ ~router.thrown
        /\ Len(router.handled) <= 1
        /\ Unknown => (router.redirects = 1 /\ router.pathname = Root)

\* What the code does: when neither the path nor "/" matches a route,
\* handleRoute redirects to "/" again and again until the call stack is
\* full, and the handler is not invoked; in every other case the claim's
\* statement holds.
C37_RedirectLoop ==
    Routed =>
        IF Unknown /\ matchRoute(router, Root) = NoRoute
        THEN /\ router.thrown /\ err
             /\ router.redirects = MaxStack
             /\ router.pathname = Root
             /\ router.handled = <<>>
        ELSE /\ ~router.thrown
             /\ Len(router.handled) <= 1
             /\ router.redirects = (IF Unknown THEN 1 ELSE 0)
             /\ router.currentRoute = matchRoute(router, router.pathname)
====
